---- MODULE Spec2Model ----
(***************************************************************************)
(* HVAC-Predictions: the telemetry-to-energy query (get_consumption_by_hour)*)
(* the attribution pipeline of main.py and the ConsumptionAnalyzer of      *)
(* consumption_aggregation.py, as state machines.                          *)
(*                                                                         *)
(* Text is a sequence of one-character strings.  A FLOAT64 value is held   *)
(* as a fraction with a mark: the FLOAT64 nearest to the fraction, or a    *)
(* FLOAT64 next to it when an operation has rounded in binary.  Where the  *)
(* rounding can decide a result (an hour boundary, a sum that lies midway  *)
(* between two roundings) every side is a step of the model.  A frame      *)
(* whose row order no statement of the code fixes is the bag of its rows.  *)
(***************************************************************************)
EXTENDS Integers, Sequences, FiniteSets, Bags

VARIABLES qpc, q_base, q_exploded, q_parsed, q_cumul, q_spans, q_per_hour, q_result,
          pc, df_units, hist, df_devices_by_units, df_disponibility, versions_filtered,
          valid_device_prefixes,
          all_consumption_data, df_final, df_devices_for_indirect, all_indirect_data,
          df_indirect_standardized, direct_queries, direct_results, indirect_queries,
          saves, file,
          apc, input_csv, df, error, df_with_weights, df_availability, low_args,
          df_low_availability

qvars == <<qpc, q_base, q_exploded, q_parsed, q_cumul, q_spans, q_per_hour, q_result>>

pvars == <<pc, df_units, hist, df_devices_by_units, df_disponibility, versions_filtered,
           valid_device_prefixes,
           all_consumption_data, df_final, df_devices_for_indirect, all_indirect_data,
           df_indirect_standardized, direct_queries, direct_results, indirect_queries,
           saves, file>>

avars == <<apc, input_csv, df, error, df_with_weights, df_availability, low_args,
           df_low_availability>>

vars == <<qvars, pvars, avars>>

\* The analyzer before it is constructed: no file named, nothing loaded.
AnalyzerIdle ==
    /\ apc = "idle"
    /\ input_csv = [exists |-> FALSE, columns |-> {}, rows |-> <<>>]
    /\ df = <<>>
    /\ error = [kind |-> "none", columns |-> <<>>]
    /\ df_with_weights = {}
    /\ df_availability = <<>>
    /\ low_args = [df_availability |-> <<>>, min_dac_expected |-> [null |-> TRUE, v |-> 0],
                   min_dut_expected |-> [null |-> TRUE, v |-> 0]]
    /\ df_low_availability = <<>>

\* ------------------------------------------------------------ bounds
\* The files read by the analyzer hold at most MaxRows rows.
MaxRows == 3

\* Payloads of the query specification hold at most MaxTokens vocabulary tokens.
MaxTokens == 3

\* Dates are the day numbers 0..MaxDate.
MaxDate == 3

\* The availability history holds up to MaxDup rows for one (device, date).
MaxDup == 2

\* ------------------------------------------------------- constants
\* Seconds of an hour bucket (the 3600 of per_hour and of the final SELECT).
SecondsPerHour == 3600

\* The last hour index the final SELECT keeps (hour_index BETWEEN 0 AND 23).
LastHour == 23

\* The calibration constant of SyntaxBigQuery.get_consumption_by_hour, 310.94, in hundredths.
K_BigQuery == 31094

\* The calibration constant of consumption_query.get_consumption_query, 310.86, in hundredths.
K_Legacy == 31086

\* Millionths of a kWh in a kWh (the 6 decimals of ROUND(.., 6)).
MicroPerUnit == 1000000

\* ------------------------------------------------------------- text
Digits == {"0", "1", "2", "3", "4", "5", "6", "7", "8", "9"}

DigitValue(c) ==
    CASE c = "0" -> 0 [] c = "1" -> 1 [] c = "2" -> 2 [] c = "3" -> 3 [] c = "4" -> 4
      [] c = "5" -> 5 [] c = "6" -> 6 [] c = "7" -> 7 [] c = "8" -> 8 [] c = "9" -> 9

RECURSIVE Pow10(_)
Pow10(n) == IF n = 0 THEN 1 ELSE 10 * Pow10(n - 1)

RECURSIVE DigitsValue(_)
DigitsValue(s) ==
    IF s = <<>> THEN 0 ELSE 10 * DigitsValue(SubSeq(s, 1, Len(s) - 1)) + DigitValue(s[Len(s)])

AllDigits(s) == \A i \in 1..Len(s) : s[i] \in Digits

\* Index of the first occurrence of character c in s, or 0.
FirstIndex(s, c) ==
    IF \E i \in 1..Len(s) : s[i] = c
    THEN CHOOSE i \in 1..Len(s) : s[i] = c /\ \A j \in 1..(i - 1) : s[j] # c
    ELSE 0

\* SPLIT(s, c): the pieces of s between occurrences of c; SPLIT of the empty
\* text is one empty piece.
RECURSIVE Split(_, _)
Split(s, c) ==
    LET i == FirstIndex(s, c)
    IN IF i = 0 THEN <<s>>
       ELSE <<SubSeq(s, 1, i - 1)>> \o Split(SubSeq(s, i + 1, Len(s)), c)

\* The whitespace characters of Unicode that have no one-character text of
\* their own in this module, each named by its code point, with its code:
\* line tabulation, next line, no-break space, ogham space mark, the spaces
\* U+2000..U+200A, line and paragraph separator, narrow no-break space,
\* medium mathematical space and ideographic space.
CodedWhitespace ==
    << <<"U+000B", 11>>, <<"U+0085", 133>>, <<"U+00A0", 160>>, <<"U+1680", 5760>>,
       <<"U+2000", 8192>>, <<"U+2001", 8193>>, <<"U+2002", 8194>>, <<"U+2003", 8195>>,
       <<"U+2004", 8196>>, <<"U+2005", 8197>>, <<"U+2006", 8198>>, <<"U+2007", 8199>>,
       <<"U+2008", 8200>>, <<"U+2009", 8201>>, <<"U+200A", 8202>>, <<"U+2028", 8232>>,
       <<"U+2029", 8233>>, <<"U+202F", 8239>>, <<"U+205F", 8287>>, <<"U+3000", 12288>> >>

\* The whitespace characters TRIM removes, those of Unicode: tab, line feed,
\* line tabulation, form feed, carriage return, blank and the other spaces
\* and separators.
Whitespace ==
    {" ", "\t", "\n", "\r", "\f", "U+000B", "U+0085", "U+00A0", "U+1680",
     "U+2000", "U+2001", "U+2002", "U+2003", "U+2004", "U+2005", "U+2006", "U+2007",
     "U+2008", "U+2009", "U+200A", "U+2028", "U+2029", "U+202F", "U+205F", "U+3000"}

\* TRIM(s): leading and trailing whitespace removed.
RECURSIVE Trim(_)
Trim(s) ==
    IF s = <<>> THEN s
    ELSE IF s[1] \in Whitespace THEN Trim(Tail(s))
    ELSE IF s[Len(s)] \in Whitespace THEN Trim(SubSeq(s, 1, Len(s) - 1))
    ELSE s

\* STARTS_WITH(s, p)
StartsWith(s, p) == Len(s) >= Len(p) /\ SubSeq(s, 1, Len(p)) = p

\* The characters of codes 32..95 and of codes 97..126, in the order of
\* their codes.
PrintableLow ==
    <<" ", "!", "\"", "#", "$", "%", "&", "'", "(", ")", "*", "+", ",", "-", ".", "/",
      "0", "1", "2", "3", "4", "5", "6", "7", "8", "9", ":", ";", "<", "=", ">", "?",
      "@", "A", "B", "C", "D", "E", "F", "G", "H", "I", "J", "K", "L", "M", "N", "O",
      "P", "Q", "R", "S", "T", "U", "V", "W", "X", "Y", "Z", "[", "\\", "]", "^", "_">>

PrintableHigh ==
    <<"a", "b", "c", "d", "e", "f", "g", "h", "i", "j", "k", "l", "m", "n", "o",
      "p", "q", "r", "s", "t", "u", "v", "w", "x", "y", "z", "{", "|", "}", "~">>

\* The code of a character: texts are ordered by the codes of their characters.
CharCode(c) ==
    CASE c = "\t" -> 9 [] c = "\n" -> 10 [] c = "\f" -> 12 [] c = "\r" -> 13
      [] \E i \in 1..Len(PrintableLow) : PrintableLow[i] = c ->
             31 + (CHOOSE i \in 1..Len(PrintableLow) : PrintableLow[i] = c)
      [] \E i \in 1..Len(PrintableHigh) : PrintableHigh[i] = c ->
             96 + (CHOOSE i \in 1..Len(PrintableHigh) : PrintableHigh[i] = c)
      [] OTHER ->
             CodedWhitespace[CHOOSE i \in 1..Len(CodedWhitespace) : CodedWhitespace[i][1] = c][2]

TextKey(s) == [i \in 1..Len(s) |-> CharCode(s[i])]

\* LOWER(c) of a letter of a number's text.
LowerChar(c) ==
    CASE c = "I" -> "i" [] c = "N" -> "n" [] c = "F" -> "f" [] c = "T" -> "t"
      [] c = "Y" -> "y" [] c = "A" -> "a" [] c = "E" -> "e" [] OTHER -> c

Lower(s) == [i \in 1..Len(s) |-> LowerChar(s[i])]

\* ------------------------------------------------- FLOAT64 values
Abs(x) == IF x >= 0 THEN x ELSE 0 - x

Sign(x) == IF x > 0 THEN 1 ELSE IF x < 0 THEN 0 - 1 ELSE 0

RECURSIVE Gcd(_, _)
Gcd(a, b) == IF b = 0 THEN a ELSE Gcd(b, a % b)

\* A FLOAT64 value.  Fin(n, d): the FLOAT64 nearest to the fraction n/d
\* (d > 0), which is n/d itself when d is a power of two.  Near(n, d): the
\* result of operations rounded in binary whose unrounded result is n/d, a
\* FLOAT64 within their rounding of n/d that the fraction does not
\* determine: the nearest to n/d or one on either side of it (for 0: 0 or a
\* Tiny).  Tiny(sign): a value that is not 0 but smaller than any value of
\* the data, of sign n.  An infinity of sign n.  NaN.
Fin(n, d) == [k |-> "fin", n |-> n, d |-> d]

Tiny(sign) == [k |-> "tiny", n |-> sign, d |-> 1]

Inf(sign) == [k |-> "inf", n |-> sign, d |-> 1]

NaN == [k |-> "nan", n |-> 0, d |-> 1]

\* The fraction n/d (d > 0) in lowest terms.
Rat(n, d) == LET g == Gcd(Abs(n), d) IN Fin(n \div g, d \div g)

Near(n, d) == [Rat(n, d) EXCEPT !.k = "near"]

Whole(i) == Fin(i, 1)

Neg(x) == IF x.k = "nan" THEN x ELSE [k |-> x.k, n |-> 0 - x.n, d |-> x.d]

RECURSIVE IsPowerOfTwo(_)
IsPowerOfTwo(d) == d = 1 \/ (d > 1 /\ d % 2 = 0 /\ IsPowerOfTwo(d \div 2))

\* x is the fraction it stands for: a binary fraction.
Exact(x) == x.k = "fin" /\ IsPowerOfTwo(x.d)

\* The fraction of a finite value, Tiny taken as 0.
Frac(x) == IF x.k = "tiny" THEN Whole(0) ELSE Rat(x.n, x.d)

IsZero(x) == x.k = "fin" /\ x.n = 0

\* x + y, x - y and x * y of FLOAT64 values.  The result of exact operands is
\* the exact sum or product; x + 0 is x, x - x is 0 and x * 1 is x; any other
\* result is rounded, a Near of the exact one.
Add(x, y) ==
    IF x.k = "nan" \/ y.k = "nan" THEN NaN
    ELSE IF x.k = "inf" /\ y.k = "inf" THEN (IF x.n = y.n THEN x ELSE NaN)
    ELSE IF x.k = "inf" THEN x
    ELSE IF y.k = "inf" THEN y
    ELSE IF IsZero(x) THEN y
    ELSE IF IsZero(y) THEN x
    ELSE IF x.k = "tiny" /\ y.k = "tiny" THEN (IF x.n = y.n THEN x ELSE Near(0, 1))
    ELSE IF x.k = "tiny" THEN Near(y.n, y.d)
    ELSE IF y.k = "tiny" THEN Near(x.n, x.d)
    ELSE LET n == x.n * y.d + y.n * x.d
             d == x.d * y.d
         IN IF (Exact(x) /\ Exact(y)) \/ (x.k = "fin" /\ y.k = "fin" /\ n = 0)
            THEN Rat(n, d)
            ELSE Near(n, d)

Sub(x, y) == Add(x, Neg(y))

\* An infinity times a value next to 0 is taken as an infinity times 0; no
\* step of the query multiplies the two.
Mul(x, y) ==
    IF x.k = "nan" \/ y.k = "nan" THEN NaN
    ELSE IF x.k = "inf" \/ y.k = "inf"
    THEN (IF Sign(x.n) * Sign(y.n) = 0 THEN NaN ELSE Inf(Sign(x.n) * Sign(y.n)))
    ELSE IF IsZero(x) \/ IsZero(y) THEN Whole(0)
    ELSE IF x = Whole(1) THEN y
    ELSE IF y = Whole(1) THEN x
    ELSE IF x.k = "tiny" \/ y.k = "tiny"
    THEN (IF Sign(x.n) * Sign(y.n) = 0 THEN Near(0, 1) ELSE Tiny(Sign(x.n) * Sign(y.n)))
    ELSE LET g == Gcd(Abs(x.n), y.d)
             h == Gcd(Abs(y.n), x.d)
             n == (x.n \div g) * (y.n \div h)
             d == (x.d \div h) * (y.d \div g)
         IN IF Exact(x) /\ Exact(y) THEN Rat(n, d) ELSE Near(n, d)

\* x < y and x > y of the query: a comparison with NaN is false.  Finite
\* values compare as their fractions do, a Tiny as a value on its side of
\* 0; two values of one fraction are not told apart.
Lt(x, y) ==
    IF x.k = "nan" \/ y.k = "nan" THEN FALSE
    ELSE IF x.k = "inf" THEN x.n < 0 /\ ~(y.k = "inf" /\ y.n < 0)
    ELSE IF y.k = "inf" THEN y.n > 0
    ELSE IF x.k = "tiny" /\ y.k = "tiny" THEN x.n < y.n
    ELSE IF x.k = "tiny" THEN (IF y.n = 0 THEN y.k = "fin" /\ x.n < 0 ELSE 0 < y.n)
    ELSE IF y.k = "tiny" THEN (IF x.n = 0 THEN x.k = "fin" /\ 0 < y.n ELSE x.n < 0)
    ELSE x.n * y.d < y.n * x.d

Gt(x, y) == Lt(y, x)

\* Of two values that are not told apart, the one LEAST or GREATEST gives:
\* the value itself when they are one value, a Near of their fraction
\* otherwise.
Either(x, y) == IF x = y THEN x ELSE Near(Frac(x).n, Frac(x).d)

\* LEAST(x, y) and GREATEST(x, y): NaN when an argument is NaN.
Least(x, y) ==
    IF x.k = "nan" \/ y.k = "nan" THEN NaN
    ELSE IF Lt(y, x) THEN y ELSE IF Lt(x, y) THEN x ELSE Either(x, y)

Greatest(x, y) ==
    IF x.k = "nan" \/ y.k = "nan" THEN NaN
    ELSE IF Lt(x, y) THEN y ELSE IF Lt(y, x) THEN x ELSE Either(x, y)

RECURSIVE SumValues(_)
SumValues(s) == IF s = <<>> THEN Whole(0) ELSE Add(Head(s), SumValues(Tail(s)))

\* arr[SAFE_OFFSET(k)]: the k-th piece (from 0), NULL when out of range.
NullText == [null |-> TRUE, str |-> <<>>]

Text(s) == [null |-> FALSE, str |-> s]

SafeOffset(arr, k) == IF k + 1 <= Len(arr) THEN Text(arr[k + 1]) ELSE NullText

NullNum == [null |-> TRUE, v |-> 0]

Num(v) == [null |-> FALSE, v |-> v]

\* The exponent part of a floating point literal, from its "e" on: the signed
\* number of its digits, NULL when it is no exponent.
ExponentCast(s) ==
    IF s = <<>> THEN Num(0)
    ELSE LET rest == Tail(s)
             signed == rest # <<>> /\ rest[1] \in {"+", "-"}
             digits == IF signed THEN Tail(rest) ELSE rest
         IN IF digits # <<>> /\ AllDigits(digits)
            THEN Num(IF signed /\ rest[1] = "-" THEN 0 - DigitsValue(digits)
                     ELSE DigitsValue(digits))
            ELSE NullNum

\* The value of a text without sign: inf, infinity and nan in any case, or a
\* floating point literal digits[.digits][e[+-]digits] or .digits[e[+-]digits];
\* NULL for any other text.
UnsignedCast(s) ==
    IF Lower(s) \in {<<"i", "n", "f">>, <<"i", "n", "f", "i", "n", "i", "t", "y">>}
    THEN Num(Inf(1))
    ELSE IF Lower(s) = <<"n", "a", "n">> THEN Num(NaN)
    ELSE LET e == FirstIndex(Lower(s), "e")
             m == IF e = 0 THEN s ELSE SubSeq(s, 1, e - 1)
             x == ExponentCast(IF e = 0 THEN <<>> ELSE SubSeq(s, e, Len(s)))
             dot == FirstIndex(m, ".")
             ip == IF dot = 0 THEN m ELSE SubSeq(m, 1, dot - 1)
             fp == IF dot = 0 THEN <<>> ELSE SubSeq(m, dot + 1, Len(m))
         IN IF AllDigits(ip) /\ AllDigits(fp) /\ Len(ip) + Len(fp) > 0 /\ ~x.null
            THEN LET digits == DigitsValue(ip \o fp)
                     scale == x.v - Len(fp)
                 IN Num(IF scale >= 0 THEN Rat(digits * Pow10(scale), 1)
                        ELSE Rat(digits, Pow10(0 - scale)))
            ELSE NullNum

\* SAFE_CAST(t AS FLOAT64): NULL for NULL and for text that is no number.
SafeCastFloat(t) ==
    IF t.null \/ t.str = <<>> THEN NullNum
    ELSE IF t.str[1] = "-"
         THEN LET u == UnsignedCast(Tail(t.str))
              IN IF u.null THEN u ELSE Num(Neg(u.v))
    ELSE IF t.str[1] = "+" THEN UnsignedCast(Tail(t.str))
    ELSE UnsignedCast(t.str)

\* COALESCE(n, d)
Coalesce(n, d) == IF n.null THEN d ELSE n.v

\* ------------------------------------------- sequences as tables
RECURSIVE FlatMap(_, _)
FlatMap(F(_), rows) ==
    IF rows = <<>> THEN <<>> ELSE F(Head(rows)) \o FlatMap(F, Tail(rows))

RECURSIVE SelectRows(_, _)
SelectRows(P(_), rows) ==
    IF rows = <<>> THEN <<>>
    ELSE (IF P(Head(rows)) THEN <<Head(rows)>> ELSE <<>>) \o SelectRows(P, Tail(rows))

RECURSIVE SumSeq(_)
SumSeq(s) == IF s = <<>> THEN 0 ELSE Head(s) + SumSeq(Tail(s))

Min(a, b) == IF a <= b THEN a ELSE b

RECURSIVE SortRows(_, _)
SortRows(Less(_, _), S) ==
    IF S = {} THEN <<>>
    ELSE LET m == CHOOSE x \in S : \A y \in S \ {x} : Less(x, y)
         IN <<m>> \o SortRows(Less, S \ {m})

RECURSIVE SeqLess(_, _)
SeqLess(a, b) ==
    IF a = <<>> THEN b # <<>>
    ELSE IF b = <<>> THEN FALSE
    ELSE IF Head(a) = Head(b) THEN SeqLess(Tail(a), Tail(b))
    ELSE Head(a) < Head(b)

\* ------------------------------------------- get_consumption_by_hour
\* exploded: one row per comma-separated part, trimmed, with its offset;
\* NULL payloads, empty parts and parts starting with "*" are left out.
ExplodeRow(b) ==
    IF b.payload.null THEN <<>>
    ELSE LET parts == Split(b.payload.str, ",")
             all == [i \in 1..Len(parts) |->
                        [dev_id |-> b.dev_id, day |-> b.day,
                         part |-> Trim(parts[i]), idx |-> i - 1]]
             Keep(r) == r.part # <<>> /\ ~StartsWith(r.part, <<"*">>)
         IN SelectRows(Keep, all)

Exploded(base) == FlatMap(ExplodeRow, base)

\* The corrente and tempo_seg of one part (tempo_seg = 1 when the cast is NULL).
Corrente(part) == SafeCastFloat(SafeOffset(Split(part, "*"), 0))

\* TempoSeg reading the text after the last "*" of the part.
TempoSegLastPart(part) ==
    Coalesce(SafeCastFloat(SafeOffset(Split(part, "*"), Len(Split(part, "*")) - 1)), Whole(1))

TempoSeg(part) == Coalesce(SafeCastFloat(SafeOffset(Split(part, "*"), 1)), Whole(1))

ParsedKeep(e) == ~Corrente(e.part).null /\ Gt(TempoSeg(e.part), Whole(0))

ParseRow(e) ==
    IF ParsedKeep(e)
    THEN <<[dev_id |-> e.dev_id, day |-> e.day, idx |-> e.idx,
            corrente |-> Corrente(e.part).v, tempo_seg |-> TempoSeg(e.part)]>>
    ELSE <<>>

Parsed(exploded) == FlatMap(ParseRow, exploded)

\* Two rows of one window partition (PARTITION BY dev_id, day).
SamePartition(r, p) == r.dev_id = p.dev_id /\ r.day = p.day

\* The orders in which the window may take the rows of parsed (o[k] is the
\* place in parsed of the k-th row): the partitions one after the other, each
\* by idx (ORDER BY idx), the rows of one partition and idx in any order.
WindowOrders(parsed) ==
    LET n == Len(parsed)
        First(i) == CHOOSE j \in 1..n :
                        /\ SamePartition(parsed[j], parsed[i])
                        /\ \A h \in 1..(j - 1) : ~SamePartition(parsed[h], parsed[i])
        Peers(i, j) == SamePartition(parsed[i], parsed[j]) /\ parsed[i].idx = parsed[j].idx
        Before(i, j) == \/ First(i) < First(j)
                        \/ First(i) = First(j) /\ parsed[i].idx < parsed[j].idx
        Sorted(o) == \A a \in 1..n : \A b \in (a + 1)..n : ~Before(o[b], o[a])
        id == [i \in 1..n |-> i]
    IN IF Sorted(id) /\ \A i \in 1..n : \A j \in (i + 1)..n : ~Peers(i, j)
       THEN {id}
       ELSE {o \in [1..n -> 1..n] : (\A i \in 1..n : \E a \in 1..n : o[a] = i) /\ Sorted(o)}

\* cumul: SUM(tempo_seg) over the rows of the partition from its first row to
\* the current one (ROWS BETWEEN UNBOUNDED PRECEDING AND CURRENT ROW), for the
\* k-th row of the window order o.
CumulativeEnd(parsed, o, k) ==
    LET In(a) == a <= k /\ SamePartition(parsed[o[a]], parsed[o[k]])
        rows == SelectRows(In, [a \in 1..Len(o) |-> a])
    IN SumValues([i \in 1..Len(rows) |-> parsed[o[rows[i]]].tempo_seg])

Cumul(parsed, o) ==
    [k \in 1..Len(parsed) |->
        [dev_id |-> parsed[o[k]].dev_id, day |-> parsed[o[k]].day, idx |-> parsed[o[k]].idx,
         corrente |-> parsed[o[k]].corrente, tempo_seg |-> parsed[o[k]].tempo_seg,
         cumulative_end |-> CumulativeEnd(parsed, o, k)]]

\* spans: each measurement becomes the interval [start_sec, end_sec).
Spans(cumul) ==
    [i \in 1..Len(cumul) |->
        [dev_id |-> cumul[i].dev_id, day |-> cumul[i].day, idx |-> cumul[i].idx,
         corrente |-> cumul[i].corrente, tempo_seg |-> cumul[i].tempo_seg,
         start_sec |-> Sub(cumul[i].cumulative_end, cumul[i].tempo_seg),
         end_sec |-> cumul[i].cumulative_end]]

\* SAFE_CAST(FLOOR(x / 3600) AS INT64), the values it may take: NULL for a
\* value that is not finite; the hour of the fraction of x; for a Near of the
\* first second of an hour, that hour or the one before.
HourOf(x) ==
    IF x.k = "tiny" THEN {Num(IF x.n < 0 THEN 0 - 1 ELSE 0)}
    ELSE IF x.k \notin {"fin", "near"} THEN {NullNum}
    ELSE LET h == x.n \div (x.d * SecondsPerHour)
         IN IF x.k = "near" /\ x.n = h * x.d * SecondsPerHour
            THEN {Num(h - 1), Num(h)}
            ELSE {Num(h)}

\* FLOOR(start_sec / 3600) and FLOOR((end_sec - 1) / 3600), the values each
\* may take.
FirstHour(s) == HourOf(s.start_sec)

FinalHour(s) == HourOf(Sub(s.end_sec, Whole(1)))

\* OverlapSeconds taking the difference from the end back to the start, with no
\* floor at 0.
OverlapSecondsBackwards(s, hour) ==
    Sub(Greatest(s.start_sec, Whole(hour * SecondsPerHour)),
        Least(s.end_sec, Whole((hour + 1) * SecondsPerHour)))

\* GREATEST(LEAST(end_sec, (hour+1)*3600) - GREATEST(start_sec, hour*3600), 0)
OverlapSeconds(s, hour) ==
    Greatest(Sub(Least(s.end_sec, Whole((hour + 1) * SecondsPerHour)),
                 Greatest(s.start_sec, Whole(hour * SecondsPerHour))),
             Whole(0))

\* UNNEST(GENERATE_ARRAY(lo, hi)): lo, lo+1, .., hi; no element when lo > hi
\* or when an end is NULL.
GenerateArray(lo, hi) ==
    IF lo.null \/ hi.null THEN <<>> ELSE [i \in 1..(hi.v - lo.v + 1) |-> lo.v + i - 1]

\* The overlap of a span with an hour of its range: the span starts before
\* the hour ends, so that a difference next to 0 is a Tiny above 0.
OverlapInRange(s, hour) ==
    LET v == OverlapSeconds(s, hour)
    IN IF v.k = "near" /\ v.n = 0 THEN Tiny(1) ELSE v

\* per_hour: the rows one span may give, one row for each hour of its range,
\* for each value the ends of the range may take.
PerHourRow(s) ==
    IF Gt(s.tempo_seg, Whole(0))
    THEN {LET hours == GenerateArray(lo, hi)
          IN [i \in 1..Len(hours) |->
                 [dev_id |-> s.dev_id, day |-> s.day, hour_index |-> hours[i],
                  overlap_seconds |-> OverlapInRange(s, hours[i]),
                  corrente |-> s.corrente]] :
             lo \in FirstHour(s), hi \in FinalHour(s)}
    ELSE {<<>>}

RECURSIVE PerHour(_)
PerHour(spans) ==
    IF spans = <<>> THEN {<<>>}
    ELSE {a \o b : a \in PerHourRow(Head(spans)), b \in PerHour(Tail(spans))}

\* n / d (d > 0) to the nearest integer, a half going away from zero.
RoundDiv(n, d) ==
    LET a == Abs(n)
        q == (a \div d) + (IF 2 * (a % d) >= d THEN 1 ELSE 0)
    IN IF n >= 0 THEN q ELSE 0 - q

\* n / d (d > 0) to the nearest integer, a half going toward zero.
RoundDivToward(n, d) ==
    LET a == Abs(n)
        q == (a \div d) + (IF 2 * (a % d) > d THEN 1 ELSE 0)
    IN IF n >= 0 THEN q ELSE 0 - q

\* n / d lies midway between two integers.
IsTie(n, d) == 2 * (Abs(n) % d) = d

\* SUM(corrente * overlap_seconds) of the rows of a group, in ampere seconds.
AmpereSeconds(rows) ==
    SumValues([i \in 1..Len(rows) |-> Mul(rows[i].corrente, rows[i].overlap_seconds)])

\* The sum of a group in millionths of a kWh: k100 / 100 * s / 3600 / 1000
\* kWh for s ampere seconds.
MicroKwh(k100, s) == Mul(s, Rat(k100 * (MicroPerUnit \div 1000), 100 * SecondsPerHour))

\* ConsumoKwh cutting the seventh decimal off instead of rounding.
ConsumoKwhTruncated(k100, rows, toward) ==
    LET m == MicroKwh(k100, AmpereSeconds(rows))
    IN IF m.k \in {"fin", "near"} THEN Rat(Sign(m.n) * (Abs(m.n) \div m.d), MicroPerUnit)
       ELSE IF m.k = "tiny" THEN Whole(0)
       ELSE m

\* ROUND(SUM((k * corrente * (overlap_seconds / 3600)) / 1000), 6) with k in
\* hundredths: the sum in kWh to six decimals.  The sum is a binary FLOAT64;
\* when its fraction lies midway between two millionths the FLOAT64 may lie
\* on either side, and the result is the millionth toward zero (toward) or
\* the one away from zero.  A Tiny rounds to 0.
ConsumoKwh(k100, rows, toward) ==
    LET m == MicroKwh(k100, AmpereSeconds(rows))
    IN IF m.k \in {"fin", "near"}
       THEN Rat(IF toward THEN RoundDivToward(m.n, m.d) ELSE RoundDiv(m.n, m.d), MicroPerUnit)
       ELSE IF m.k = "tiny" THEN Whole(0)
       ELSE m

\* HourKept with no upper end.
HourKeptAll(r) == r.hour_index >= 0

\* The final SELECT keeps the hours 0..23.
HourKept(r) == r.hour_index >= 0 /\ r.hour_index <= LastHour

\* The rows of per_hour of one (dev_id, day, hour_index), among the hours kept.
HourGroup(per_hour, key) ==
    LET In(r) == HourKept(r) /\ r.dev_id = key[1] /\ r.day = key[2] /\ r.hour_index = key[3]
    IN SelectRows(In, per_hour)

HourKeys(per_hour) ==
    LET kept == SelectRows(HourKept, per_hour)
    IN {<<kept[i].dev_id, kept[i].day, kept[i].hour_index>> : i \in 1..Len(kept)}

\* The groups whose sum lies midway between two millionths of a kWh.
TieKeys(k100, per_hour) ==
    {key \in HourKeys(per_hour) :
        LET m == MicroKwh(k100, AmpereSeconds(HourGroup(per_hour, key)))
        IN m.k \in {"fin", "near"} /\ IsTie(m.n, m.d)}

\* The ways the FLOAT64 sums of the groups may fall: the set of the groups
\* whose sum is taken toward zero.
RoundingChoices(k100, per_hour) == SUBSET TieKeys(k100, per_hour)

\* The final SELECT with calibration constant k100: hours 0..23 only, one row
\* per (dev_id, day, hour_index), ordered by them.
FinalSelect(k100, per_hour, toward) ==
    LET KeyLess(a, b) == SeqLess(TextKey(a[1]) \o <<a[2], a[3]>>, TextKey(b[1]) \o <<b[2], b[3]>>)
        ordered == SortRows(KeyLess, HourKeys(per_hour))
    IN [i \in 1..Len(ordered) |->
           [device_id |-> ordered[i][1], data |-> ordered[i][2], hora |-> ordered[i][3],
            consumo_kwh |-> ConsumoKwh(k100, HourGroup(per_hour, ordered[i]),
                                       ordered[i] \in toward)]]

\* The calibration constant in the text of the query built for a version: the
\* literal 310.94, whatever the version.
CalibrationK(device_version) == K_BigQuery

\* get_consumption_by_hour on the rows of base: the results the query may
\* give, one for each window order and each way the sums may fall.
GetConsumptionByHour(base) ==
    LET parsed == Parsed(Exploded(base))
    IN UNION {UNION {{FinalSelect(K_BigQuery, per_hour, toward) :
                         toward \in RoundingChoices(K_BigQuery, per_hour)} :
                     per_hour \in PerHour(Spans(Cumul(parsed, o)))} :
                 o \in WindowOrders(parsed)}

\* ------------------------------------------------ the pipeline's data
\* Length of the version prefix of a device code (str.slice(0, 8), LEFT(device_code, 8)).
VersionLen == 8

\* The availability threshold (disponibility >= 75).
Threshold == 75

Dates == 0..MaxDate

\* str.slice(0, n)
Slice(s, n) == SubSeq(s, 1, Min(n, Len(s)))

DAC == <<"D", "A", "C">>

D1 == <<"D", "A", "C", "0", "0", "0", "0", "1", "A">>

D2 == <<"D", "A", "C", "0", "0", "0", "0", "1", "B">>

D3 == <<"D", "U", "T", "0", "0", "0", "0", "2", "A">>

Devices == {D1, D2, D3}

\* The units files: automation start and days before automation of units 1 and 2.
UnitsCsvs ==
    { << [id_bradesco |-> 1, data_inicio_automacao |-> a, dias_antes_automacao |-> n],
         [id_bradesco |-> 2, data_inicio_automacao |-> 2, dias_antes_automacao |-> 0] >> :
        a \in {1, 2}, n \in {0, 1} }

\* ProcessClientUnits subtracting dias_antes_automacao only, as its docstring reads.
ProcessClientUnitsNoExtraDay(csv) ==
    [i \in 1..Len(csv) |->
        [id_bradesco |-> csv[i].id_bradesco,
         data_inicio_automacao |-> csv[i].data_inicio_automacao,
         dias_antes_automacao |-> csv[i].dias_antes_automacao,
         data_instalacao |-> csv[i].data_inicio_automacao - csv[i].dias_antes_automacao]]

\* process_client_units: data_instalacao = data_inicio_automacao - (dias_antes_automacao + 1).
ProcessClientUnits(csv) ==
    [i \in 1..Len(csv) |->
        [id_bradesco |-> csv[i].id_bradesco,
         data_inicio_automacao |-> csv[i].data_inicio_automacao,
         dias_antes_automacao |-> csv[i].dias_antes_automacao,
         data_instalacao |-> csv[i].data_inicio_automacao - (csv[i].dias_antes_automacao + 1)]]

Column(rows, F(_)) == [i \in 1..Len(rows) |-> F(rows[i])]

Range(s) == {s[i] : i \in 1..Len(s)}

MinOf(S) == CHOOSE x \in S : \A y \in S : x <= y

MaxOf(S) == CHOOSE x \in S : \A y \in S : x >= y

\* ------------------------------------------------ frames without an order
\* A frame whose row order no statement of the code fixes (the result of a
\* query without ORDER BY, of a polars join, of a concat of such frames) is
\* the bag of its rows.
RECURSIVE SeqToBag(_)
SeqToBag(s) == IF s = <<>> THEN EmptyBag ELSE SetToBag({Head(s)}) (+) SeqToBag(Tail(s))

\* The rows of a frame in one order, for the operators that go row by row.
RECURSIVE Rows(_)
Rows(B) ==
    IF DOMAIN B = {} THEN <<>>
    ELSE LET x == CHOOSE y \in DOMAIN B : TRUE
         IN [i \in 1..B[x] |-> x] \o Rows([y \in DOMAIN B \ {x} |-> B[y]])

\* filter: the rows that satisfy P, each as often as it was there.
Filter(P(_), B) == [x \in {y \in DOMAIN B : P(y)} |-> B[x]]

\* with_columns / select: F of every row.
MapRows(F(_), B) == SeqToBag(Column(Rows(B), F))

\* An inner join: every pair of a left and a right row that match, merged by
\* M; polars promises no order of the rows of a join.
Join(left, right, Match(_, _), M(_, _)) ==
    LET Row(l) == LET Hit(r) == Match(l, r)
                      hits == SelectRows(Hit, Rows(right))
                  IN [i \in 1..Len(hits) |-> M(l, hits[i])]
    IN SeqToBag(FlatMap(Row, Rows(left)))

\* pl.concat of a list of frames.
RECURSIVE Concat(_)
Concat(dfs) == IF dfs = <<>> THEN EmptyBag ELSE Head(dfs) (+) Concat(Tail(dfs))

\* x > y as polars and PostgreSQL order floats: NaN equals NaN and is above
\* every number.
TotalGt(x, y) ==
    IF x.k = "nan" THEN y.k # "nan"
    ELSE IF y.k = "nan" THEN FALSE
    ELSE Gt(x, y)

\* A date given to a query as 'YYYY-MM-DD' and compared with a timestamp is
\* the midnight that starts the day.
Midnight(d) == [date |-> d, hour |-> 0]

TsLeq(a, b) == a.date < b.date \/ (a.date = b.date /\ a.hour <= b.hour)

\* --------------------------------------------- the PostgreSQL queries
\* get_devices_by_units: DISTINCT ON (device_code) among the rows of the given
\* units with disponibility >= 75, ORDER BY unit_id. Which row of a device is
\* kept is not fixed by the statement: every roster with one of the device's
\* units is a result. With no unit the text "unit_id IN ()" is no SQL and the
\* query raises: there is no result.
GetDevicesByUnits(h, units) ==
    IF units = <<>> THEN {}
    ELSE LET Ok(r) == r.unit_id \in Range(units) /\ r.disponibility >= Threshold
             rows == SelectRows(Ok, h)
             codes == {rows[i].device_code : i \in 1..Len(rows)}
             UnitsOf(c) == {rows[i].unit_id : i \in {j \in 1..Len(rows) : rows[j].device_code = c}}
             picks == {f \in [codes -> Range(units)] : \A c \in codes : f[c] \in UnitsOf(c)}
         IN {SetToBag({[device_code |-> c, unit_id |-> f[c]] : c \in codes}) : f \in picks}

\* get_record_dates_above_disponibility_threshold: (device_code, record_date)
\* of every row of the units at or above the threshold, dates within the
\* bounds, in no stated order; no result when the list of units is empty.
GetRecordDatesAboveThreshold(h, units, threshold, date_init, date_final) ==
    IF units = <<>> THEN {}
    ELSE LET Ok(r) == /\ r.unit_id \in Range(units)
                      /\ r.disponibility >= threshold
                      /\ r.record_date >= date_init /\ r.record_date <= date_final
             rows == SelectRows(Ok, h)
         IN {SeqToBag([i \in 1..Len(rows) |->
                 [device_code |-> rows[i].device_code, record_date |-> rows[i].record_date]])}

\* get_devices_families_with_current_parameter: DISTINCT LEFT(device_code, 8)
\* of the rows with consumption_ah > 0.
GetDevicesFamilies(table) ==
    {Slice(table[i].device_code, VersionLen) : i \in {j \in 1..Len(table) : table[j].consumption_ah > 0}}

\* get_device_consumptions_by_indirect_method: the rows of the device with
\* record_date BETWEEN 'date_init' AND 'date_final' and consumption > 0, in
\* no stated order.
GetDeviceConsumptionsByIndirectMethod(table, device_code, date_init, date_final) ==
    LET Ok(r) == /\ r.device_code = device_code
                 /\ TsLeq(Midnight(date_init), r.record_date)
                 /\ TsLeq(r.record_date, Midnight(date_final))
                 /\ TotalGt(r.consumption, Whole(0))
    IN SeqToBag(SelectRows(Ok, table))

\* Base taking the rows of every device of the table.
BaseEveryDevice(table, date_init, date_final) ==
    LET Ok(r) == r.day >= date_init /\ r.day <= date_final
    IN SelectRows(Ok, table)

\* The base CTE of get_consumption_by_hour: the rows of the version's table
\* with day BETWEEN date_init AND date_final and a dev_id starting with DAC.
Base(table, date_init, date_final) ==
    LET Ok(r) == r.day >= date_init /\ r.day <= date_final /\ StartsWith(r.dev_id, DAC)
    IN SelectRows(Ok, table)

\* The results the query of a version may give.
DirectQuery(table, date_init, date_final) ==
    GetConsumptionByHour(Base(table, date_init, date_final))

\* ------------------------------------------------- main.py, by parts
\* Lines 76-81: the version of each device and the versions of the roster.
WithVersion(devs) ==
    LET F(d) == [unit_id |-> d.unit_id, device_code |-> d.device_code,
                 device_version |-> Slice(d.device_code, VersionLen)]
    IN MapRows(F, devs)

Versions(devs) == {d.device_version : d \in BagToSet(devs)}

\* Every ordering of a finite set (unique().to_list() promises no order).
Orderings(S) == {s \in [1..Cardinality(S) -> S] : Range(s) = S}

\* Lines 108-111: the units of a version with their dates.
DateUnits(units, devs, version) ==
    LET target == SetToBag({d.unit_id : d \in {x \in BagToSet(devs) : x.device_version = version}})
        Match(u, t) == u.id_bradesco = t
        M(u, t) == u
    IN Join(SeqToBag(units), target, Match, M)

\* Lines 123-130: the devices of the version with the dates of their unit.
DevicesWithDates(units, devs, version) ==
    LET OfVersion(d) == d.device_version = version
        Match(d, u) == d.unit_id = u.id_bradesco
        M(d, u) == [device_code |-> d.device_code, unit_id |-> d.unit_id,
                    data_instalacao |-> u.data_instalacao,
                    data_inicio_automacao |-> u.data_inicio_automacao]
    IN Join(Filter(OfVersion, devs), DateUnits(units, devs, version), Match, M)

\* DirectFilter without the upper end of the window.
DirectFilterNoUpper(r) == r.data >= r.data_instalacao /\ TotalGt(r.consumo_kwh, Whole(0))

\* Lines 158-162: the window and positive-consumption filter of a direct row.
DirectFilter(r) ==
    /\ r.data >= r.data_instalacao
    /\ r.data <= r.data_inicio_automacao
    /\ TotalGt(r.consumo_kwh, Whole(0))

\* AvailabilityJoin keeping every row.
AvailabilityJoinNone(rows, disp) == rows

\* Lines 163-168 and 279-284: the join with the availability records.
AvailabilityJoin(rows, disp) ==
    LET Match(r, a) == r.device_id = a.device_code /\ r.data = a.record_date
        M(r, a) == r
    IN Join(rows, disp, Match, M)

\* Lines 139-184: the direct rows of one version after joins and filters.
DirectPipeline(result, units, devs, disp, version) ==
    LET Match(r, d) == r.device_id = d.device_code
        M(r, d) == [unit_id |-> d.unit_id, device_id |-> r.device_id,
                    device_version |-> version, hora |-> r.hora, data |-> r.data,
                    consumo_kwh |-> r.consumo_kwh,
                    data_instalacao |-> d.data_instalacao,
                    data_inicio_automacao |-> d.data_inicio_automacao,
                    metodo |-> "direto"]
        joined == Join(SeqToBag(result), DevicesWithDates(units, devs, version), Match, M)
    IN AvailabilityJoin(Filter(DirectFilter, joined), disp)

\* DevicesWithoutConsumption leaving out the devices of a version that has direct rows.
DevicesOfVersionsWithoutConsumption(final, devs) ==
    LET with == {r.device_version : r \in BagToSet(final)}
    IN {d.device_code : d \in {x \in BagToSet(devs) : x.device_version \notin with}}

\* DevicesWithoutConsumption taking every device of the roster.
AllRosterDevices(final, devs) == {d.device_code : d \in BagToSet(devs)}

\* Lines 210-229: the roster devices with no direct row, with their unit's dates.
DevicesWithoutConsumption(final, devs) ==
    LET with == {r.device_id : r \in BagToSet(final)}
        all == {d.device_code : d \in BagToSet(devs)}
    IN {d \in all : d \notin with}

DevicesForIndirect(final, devs, units) ==
    LET without == DevicesWithoutConsumption(final, devs)
        In(d) == d.device_code \in without
        Match(d, u) == d.unit_id = u.id_bradesco
        M(d, u) == [device_code |-> d.device_code, unit_id |-> d.unit_id,
                    data_instalacao |-> u.data_instalacao,
                    data_inicio_automacao |-> u.data_inicio_automacao]
    IN Join(Filter(In, devs), SeqToBag(units), Match, M)

\* Lines 264-296: the indirect rows joined, filtered and standardized.
IndirectFilter(r) == TotalGt(r.consumption, Whole(0))

IndirectStandardized(raw, for_indirect, disp) ==
    LET Match(r, d) == r.device_code = d.device_code
        M(r, d) == [device_code |-> r.device_code, record_date |-> r.record_date,
                    consumption |-> r.consumption, unit_id |-> d.unit_id,
                    data_instalacao |-> d.data_instalacao,
                    data_inicio_automacao |-> d.data_inicio_automacao]
        kept == Filter(IndirectFilter, Join(raw, for_indirect, Match, M))
        Std(r) == [unit_id |-> r.unit_id, device_id |-> r.device_code,
                   device_version |-> Slice(r.device_code, VersionLen),
                   hora |-> r.record_date.hour, data |-> r.record_date.date,
                   consumo_kwh |-> r.consumption,
                   data_instalacao |-> r.data_instalacao,
                   data_inicio_automacao |-> r.data_inicio_automacao,
                   metodo |-> "indireto"]
    IN AvailabilityJoin(MapRows(Std, kept), disp)

\* SaveConsolidatedConsumption writing an empty file when there is no indirect row.
SaveConsolidatedConsumptionDropsDirect(df_direct, df_indirect) ==
    IF BagCardinality(df_indirect) > 0 THEN df_direct (+) df_indirect ELSE EmptyBag

\* save_consolidated_consumption: the rows written to the consolidated file,
\* the direct ones and, when there are any, the indirect ones.
SaveConsolidatedConsumption(df_direct, df_indirect) ==
    IF BagCardinality(df_indirect) > 0 THEN df_direct (+) df_indirect ELSE df_direct

\* ------------------------------------------- the external tables
\* A device outside the units of the file.
D9 == <<"D", "A", "C", "0", "0", "0", "0", "9", "A">>

HistRow(d, u, date, disp) ==
    [device_code |-> d, unit_id |-> u, record_date |-> date, disponibility |-> disp]

\* The rows device_disponibility_hist may hold for each device: D1 reports
\* from unit 1 (once, several times a day, or below the threshold) or from
\* both units, D2 from unit 2, D3 from unit 1.
HistOptions(d) ==
    IF d = D1
    THEN {<<>>, <<HistRow(D1, 1, 1, Threshold - 1), HistRow(D1, 1, 0, Threshold)>>,
          <<HistRow(D1, 1, 1, Threshold + 5), HistRow(D1, 2, 1, Threshold + 5)>>}
         \cup {<<HistRow(D1, 1, date, Threshold + 5)>> : date \in Dates}
         \cup {[i \in 1..k |-> HistRow(D1, 1, 1, Threshold + 5)] : k \in 2..MaxDup}
    ELSE IF d = D2
    THEN {<<HistRow(D2, 2, 1, Threshold + 5)>>, <<HistRow(D2, 2, 2, Threshold + 5)>>}
    ELSE {<<>>, <<HistRow(D3, 1, 1, Threshold)>>}

HistTables ==
    {h1 \o h2 \o h3 \o <<HistRow(D9, 9, 1, Threshold + 5)>> :
        h1 \in HistOptions(D1), h2 \in HistOptions(D2), h3 \in HistOptions(D3)}

\* The contents device_current_consumption may have.
FamilyTables ==
    { <<[device_code |-> D1, consumption_ah |-> 3]>>,
      <<[device_code |-> D1, consumption_ah |-> 3], [device_code |-> D3, consumption_ah |-> 2],
        [device_code |-> D2, consumption_ah |-> 1]>>,
      <<[device_code |-> D1, consumption_ah |-> 0], [device_code |-> D3, consumption_ah |-> 4]>> }

\* Payloads of the telemetry tables: "0", "2*3601", "0*3600,U+000B 5" (a line
\* tabulation before the second part), "1*86401",
\* "2*3000" and "4*3000" (two rows of one day), "0.5*540" (a sum midway
\* between two millionths of a kWh) and "nan".
PayloadZero == <<"0">>

PayloadSecondHour == <<"0", "*", "3", "6", "0", "0", ",", "U+000B", "5">>

PayloadTwoHours == <<"2", "*", "3", "6", "0", "1">>

PayloadOverDay == <<"1", "*", "8", "6", "4", "0", "1">>

PayloadFirstRow == <<"2", "*", "3", "0", "0", "0">>

PayloadSecondRow == <<"4", "*", "3", "0", "0", "0">>

PayloadTie == <<"0", ".", "5", "*", "5", "4", "0">>

PayloadNaN == <<"n", "a", "n">>

TelemetryRow(d, day, p) == [dev_id |-> d, day |-> day, payload |-> Text(p)]

\* The rows the cache_dev_gen table of a version may hold.
TelemetryTables(version) ==
    IF version = Slice(D1, VersionLen)
    THEN {t1 \o t2 :
            t1 \in {<<>>} \cup {<<TelemetryRow(D1, day, PayloadTwoHours)>> : day \in Dates}
                        \cup {<<TelemetryRow(D1, 1, p)>> :
                                 p \in {PayloadZero, PayloadSecondHour, PayloadOverDay,
                                        PayloadTie, PayloadNaN}}
                        \cup {<<TelemetryRow(D1, 1, PayloadFirstRow), TelemetryRow(D1, 1, PayloadSecondRow)>>},
            t2 \in {<<>>, <<TelemetryRow(D2, 1, PayloadTwoHours)>>,
                    <<TelemetryRow(D2, 2, PayloadTwoHours)>>}}
    ELSE {<<>>, <<TelemetryRow(D3, 1, PayloadTwoHours)>>}

IndirectRow(d, date, hour, c) ==
    [device_code |-> d, record_date |-> [date |-> date, hour |-> hour], consumption |-> Whole(c)]

\* The rows energy_efficiency_hour_hist may hold when a device is queried.
IndirectTables(d) ==
    {t \o <<IndirectRow(D9, 1, 0, 7)>> :
        t \in IF d = D1
              THEN {<<>>, <<IndirectRow(D1, 0, 0, 0)>>}
                   \cup {<<IndirectRow(D1, date, hour, 7)>> : date \in Dates, hour \in {0, 1}}
              ELSE IF d = D2
              THEN {<<>>, <<IndirectRow(D2, 2, 1, 7)>>, <<IndirectRow(D2, 1, 0, 7)>>}
              ELSE {<<>>, <<IndirectRow(d, 1, 0, 7)>>, <<IndirectRow(d, 1, 0, 0)>>}}

\* ------------------------------------------------ the run of main.py
PipelineIdle ==
    /\ pc = "idle"
    /\ df_units = <<>>
    /\ hist = <<>>
    /\ df_devices_by_units = EmptyBag
    /\ df_disponibility = EmptyBag
    /\ versions_filtered = <<>>
    /\ valid_device_prefixes = {}
    /\ all_consumption_data = <<>>
    /\ df_final = EmptyBag
    /\ df_devices_for_indirect = EmptyBag
    /\ all_indirect_data = EmptyBag
    /\ df_indirect_standardized = EmptyBag
    /\ direct_queries = <<>>
    /\ direct_results = <<>>
    /\ indirect_queries = EmptyBag
    /\ saves = 0
    /\ file = EmptyBag

QueryIdle ==
    /\ qpc = "idle"
    /\ q_base = <<>>
    /\ q_exploded = <<>>
    /\ q_parsed = <<>>
    /\ q_cumul = <<>>
    /\ q_spans = <<>>
    /\ q_per_hour = <<>>
    /\ q_result = <<>>

Init ==
    /\ QueryIdle
    /\ AnalyzerIdle
    /\ pc = "load_units"
    /\ df_units = <<>>
    /\ hist = <<>>
    /\ df_devices_by_units = EmptyBag
    /\ df_disponibility = EmptyBag
    /\ versions_filtered = <<>>
    /\ valid_device_prefixes = {}
    /\ all_consumption_data = <<>>
    /\ df_final = EmptyBag
    /\ df_devices_for_indirect = EmptyBag
    /\ all_indirect_data = EmptyBag
    /\ df_indirect_standardized = EmptyBag
    /\ direct_queries = <<>>
    /\ direct_results = <<>>
    /\ indirect_queries = EmptyBag
    /\ saves = 0
    /\ file = EmptyBag

UnitIds(units) == Column(units, LAMBDA u : u.id_bradesco)

\* Lines 47-50.
LoadUnits ==
    /\ pc = "load_units"
    /\ \E csv \in UnitsCsvs : df_units' = ProcessClientUnits(csv)
    /\ pc' = "query_devices"
    /\ UNCHANGED <<hist, df_devices_by_units, df_disponibility, versions_filtered,
                   valid_device_prefixes,
                   all_consumption_data, df_final, df_devices_for_indirect,
                   all_indirect_data, df_indirect_standardized, direct_queries, direct_results,
                   indirect_queries, saves, file>>
    /\ UNCHANGED <<qvars, avars>>

\* Lines 53-57: the roster is one of the results the query may give.
QueryDevices ==
    /\ pc = "query_devices"
    /\ \E h \in HistTables :
          /\ hist' = h
          /\ \E roster \in GetDevicesByUnits(h, UnitIds(df_units)) :
                df_devices_by_units' = roster
    /\ pc' = "query_disponibility"
    /\ UNCHANGED <<df_units, df_disponibility, versions_filtered,
                   valid_device_prefixes,
                   all_consumption_data, df_final, df_devices_for_indirect,
                   all_indirect_data, df_indirect_standardized, direct_queries, direct_results,
                   indirect_queries, saves, file>>
    /\ UNCHANGED <<qvars, avars>>

\* Lines 60-81.
QueryDisponibility ==
    /\ pc = "query_disponibility"
    /\ LET date_min_global == MinOf(Range(Column(df_units, LAMBDA u : u.data_instalacao)))
           date_max_global == MaxOf(Range(Column(df_units, LAMBDA u : u.data_inicio_automacao)))
       IN \E disp \in GetRecordDatesAboveThreshold(hist, UnitIds(df_units), Threshold,
                                                   date_min_global, date_max_global) :
             df_disponibility' = disp
    /\ df_devices_by_units' = WithVersion(df_devices_by_units)
    /\ pc' = "query_families"
    /\ UNCHANGED <<df_units, hist, versions_filtered,
                   valid_device_prefixes,
                   all_consumption_data, df_final, df_devices_for_indirect,
                   all_indirect_data, df_indirect_standardized, direct_queries, direct_results,
                   indirect_queries, saves, file>>
    /\ UNCHANGED <<qvars, avars>>

\* Lines 84-104.
QueryFamilies ==
    /\ pc = "query_families"
    /\ \E table \in FamilyTables :
          \E versions \in Orderings(Versions(df_devices_by_units)) :
              LET Valid(v) == v \in GetDevicesFamilies(table)
              IN /\ valid_device_prefixes' = GetDevicesFamilies(table)
                 /\ versions_filtered' = SelectRows(Valid, versions)
                 /\ pc' = IF SelectRows(Valid, versions) = <<>> THEN "consolidate" ELSE "direct"
    /\ UNCHANGED <<df_units, hist, df_devices_by_units, df_disponibility,
                   all_consumption_data, df_final, df_devices_for_indirect,
                   all_indirect_data, df_indirect_standardized, direct_queries, direct_results,
                   indirect_queries, saves, file>>
    /\ UNCHANGED <<qvars, avars>>

\* DirectVersion taking the versions from the end of versions_filtered.
DirectVersionReversed ==
    /\ pc = "direct"
    /\ LET version == versions_filtered[Len(versions_filtered) - Len(direct_queries)]
           df_date_units == DateUnits(df_units, df_devices_by_units, version)
           date_min == MinOf({u.data_instalacao : u \in BagToSet(df_date_units)})
           date_max == MaxOf({u.data_inicio_automacao : u \in BagToSet(df_date_units)})
       IN \E table \in TelemetryTables(version) :
             \E result \in DirectQuery(table, date_min, date_max) :
                 LET df_direct_consumption ==
                         IF Len(result) = 0 THEN EmptyBag
                         ELSE DirectPipeline(result, df_units, df_devices_by_units,
                                             df_disponibility, version)
                 IN /\ all_consumption_data' =
                           IF BagCardinality(df_direct_consumption) > 0
                           THEN Append(all_consumption_data, df_direct_consumption)
                           ELSE all_consumption_data
                    /\ direct_queries' =
                           Append(direct_queries, [device_version |-> version,
                                                   date_init |-> date_min, date_final |-> date_max,
                                                   table |-> table])
                    /\ direct_results' = Append(direct_results, result)
    /\ pc' = IF Len(direct_queries) + 1 = Len(versions_filtered) THEN "consolidate" ELSE "direct"
    /\ UNCHANGED <<df_units, hist, df_devices_by_units, df_disponibility, versions_filtered,
                   valid_device_prefixes,
                   df_final, df_devices_for_indirect, all_indirect_data,
                   df_indirect_standardized, indirect_queries, saves, file>>
    /\ UNCHANGED <<qvars, avars>>

\* Lines 107-187: one turn of the loop over versions_filtered, with one of
\* the results the query may give.
DirectVersion ==
    /\ pc = "direct"
    /\ LET version == versions_filtered[Len(direct_queries) + 1]
           df_date_units == DateUnits(df_units, df_devices_by_units, version)
           date_min == MinOf({u.data_instalacao : u \in BagToSet(df_date_units)})
           date_max == MaxOf({u.data_inicio_automacao : u \in BagToSet(df_date_units)})
       IN \E table \in TelemetryTables(version) :
             \E result \in DirectQuery(table, date_min, date_max) :
                 LET df_direct_consumption ==
                         IF Len(result) = 0 THEN EmptyBag
                         ELSE DirectPipeline(result, df_units, df_devices_by_units,
                                             df_disponibility, version)
                 IN /\ all_consumption_data' =
                           IF BagCardinality(df_direct_consumption) > 0
                           THEN Append(all_consumption_data, df_direct_consumption)
                           ELSE all_consumption_data
                    /\ direct_queries' =
                           Append(direct_queries, [device_version |-> version,
                                                   date_init |-> date_min, date_final |-> date_max,
                                                   table |-> table])
                    /\ direct_results' = Append(direct_results, result)
    /\ pc' = IF Len(direct_queries) + 1 = Len(versions_filtered) THEN "consolidate" ELSE "direct"
    /\ UNCHANGED <<df_units, hist, df_devices_by_units, df_disponibility, versions_filtered,
                   valid_device_prefixes,
                   df_final, df_devices_for_indirect, all_indirect_data,
                   df_indirect_standardized, indirect_queries, saves, file>>
    /\ UNCHANGED <<qvars, avars>>

\* Consolidate saving a file also when there is no direct row.
ConsolidateSavesEmpty ==
    /\ pc = "consolidate"
    /\ pc' = IF all_consumption_data = <<>> THEN "fatal" ELSE "done"
    /\ df_final' = Concat(all_consumption_data)
    /\ saves' = saves + 1
    /\ file' = SaveConsolidatedConsumption(Concat(all_consumption_data), EmptyBag)
    /\ UNCHANGED <<df_units, hist, df_devices_by_units, df_disponibility, versions_filtered,
                   valid_device_prefixes,
                   all_consumption_data, df_devices_for_indirect, all_indirect_data,
                   df_indirect_standardized, direct_queries, direct_results,
                   indirect_queries>>
    /\ UNCHANGED <<qvars, avars>>

\* Lines 190-229 and 313-318: the direct rows are put together; with none the
\* run ends with the error message, with no device left over the file is saved.
Consolidate ==
    /\ pc = "consolidate"
    /\ IF all_consumption_data = <<>>
       THEN /\ pc' = "fatal"
            /\ UNCHANGED <<df_final, df_devices_for_indirect, saves, file>>
       ELSE LET final == Concat(all_consumption_data)
                without == DevicesWithoutConsumption(final, df_devices_by_units)
                for_indirect == DevicesForIndirect(final, df_devices_by_units, df_units)
            IN /\ df_final' = final
               /\ IF without = {}
                  THEN /\ pc' = "done"
                       /\ saves' = saves + 1
                       /\ file' = SaveConsolidatedConsumption(final, EmptyBag)
                       /\ UNCHANGED df_devices_for_indirect
                  ELSE /\ pc' = IF for_indirect = EmptyBag THEN "standardize" ELSE "indirect"
                       /\ df_devices_for_indirect' = for_indirect
                       /\ UNCHANGED <<saves, file>>
    /\ UNCHANGED <<df_units, hist, df_devices_by_units, df_disponibility, versions_filtered,
                   valid_device_prefixes,
                   all_consumption_data, all_indirect_data, df_indirect_standardized,
                   direct_queries, direct_results, indirect_queries>>
    /\ UNCHANGED <<qvars, avars>>

\* The query of the indirect loop for a row of df_devices_for_indirect.
IndirectQueryOf(row) ==
    [device_code |-> row.device_code, date_init |-> row.data_instalacao,
     date_final |-> row.data_inicio_automacao]

\* The rows of df_devices_for_indirect the loop has not come to yet.
IndirectPending(for_indirect, queries) ==
    {row \in BagToSet(for_indirect) :
        LET Same(r) == IndirectQueryOf(r) = IndirectQueryOf(row)
        IN CopiesIn(IndirectQueryOf(row), queries) < BagCardinality(Filter(Same, for_indirect))}

\* Lines 233-250: one turn of the loop over df_devices_for_indirect, whose
\* rows come in the order the join left them in.
IndirectDevice ==
    /\ pc = "indirect"
    /\ \E row \in IndirectPending(df_devices_for_indirect, indirect_queries) :
          \E table \in IndirectTables(row.device_code) :
             LET df_device_indirect ==
                     GetDeviceConsumptionsByIndirectMethod(table, row.device_code,
                         row.data_instalacao, row.data_inicio_automacao)
             IN /\ all_indirect_data' =
                       IF BagCardinality(df_device_indirect) > 0
                       THEN all_indirect_data (+) SetToBag({df_device_indirect})
                       ELSE all_indirect_data
                /\ indirect_queries' = indirect_queries (+) SetToBag({IndirectQueryOf(row)})
    /\ pc' = IF BagCardinality(indirect_queries) + 1 = BagCardinality(df_devices_for_indirect)
             THEN "standardize" ELSE "indirect"
    /\ UNCHANGED <<df_units, hist, df_devices_by_units, df_disponibility, versions_filtered,
                   valid_device_prefixes,
                   all_consumption_data, df_final, df_devices_for_indirect,
                   df_indirect_standardized, direct_queries, direct_results, saves, file>>
    /\ UNCHANGED <<qvars, avars>>

\* Lines 253-312: the indirect rows are standardized and the file is saved.
Standardize ==
    /\ pc = "standardize"
    /\ LET std == IF all_indirect_data = EmptyBag THEN EmptyBag
                  ELSE IndirectStandardized(Concat(Rows(all_indirect_data)),
                                            df_devices_for_indirect, df_disponibility)
       IN /\ df_indirect_standardized' = std
          /\ file' = SaveConsolidatedConsumption(df_final, std)
    /\ saves' = saves + 1
    /\ pc' = "done"
    /\ UNCHANGED <<df_units, hist, df_devices_by_units, df_disponibility, versions_filtered,
                   valid_device_prefixes,
                   all_consumption_data, df_final, df_devices_for_indirect,
                   all_indirect_data, direct_queries, direct_results, indirect_queries>>
    /\ UNCHANGED <<qvars, avars>>

\* QueryRaises saving the direct rows it has when a query of the indirect loop fails.
QueryRaisesSavesPartial ==
    /\ pc \in {"query_devices", "query_disponibility", "query_families", "direct", "indirect"}
    /\ pc' = "aborted"
    /\ IF pc = "indirect"
       THEN /\ saves' = saves + 1
            /\ file' = SaveConsolidatedConsumption(df_final, EmptyBag)
       ELSE UNCHANGED <<saves, file>>
    /\ UNCHANGED <<df_units, hist, df_devices_by_units, df_disponibility, versions_filtered,
                   valid_device_prefixes,
                   all_consumption_data, df_final, df_devices_for_indirect,
                   all_indirect_data, df_indirect_standardized, direct_queries, direct_results,
                   indirect_queries>>
    /\ UNCHANGED <<qvars, avars>>

\* An external query raises: nothing catches it and the run ends there.
QueryRaises ==
    /\ pc \in {"query_devices", "query_disponibility", "query_families", "direct", "indirect"}
    /\ pc' = "aborted"
    /\ UNCHANGED <<df_units, hist, df_devices_by_units, df_disponibility, versions_filtered,
                   valid_device_prefixes,
                   all_consumption_data, df_final, df_devices_for_indirect,
                   all_indirect_data, df_indirect_standardized, direct_queries, direct_results,
                   indirect_queries, saves, file>>
    /\ UNCHANGED <<qvars, avars>>

Next ==
    \/ LoadUnits
    \/ QueryDevices
    \/ QueryDisponibility
    \/ QueryFamilies
    \/ DirectVersion
    \/ Consolidate
    \/ IndirectDevice
    \/ Standardize
    \/ QueryRaises

Spec == Init /\ [][Next]_vars

\* --------------------------------------- the query, stage by stage
\* The vocabulary of payload tokens: "5", "3*2", "*9", "2*0", "5*x", "x", "",
\* "7*0.5", "2*3601" and "5*x*3".
TokenVocabulary ==
    { <<"5">>, <<"3", "*", "2">>, <<"*", "9">>, <<"2", "*", "0">>,
      <<"5", "*", "x">>, <<"x">>, <<>>,
      <<"7", "*", "0", ".", "5">>, <<"2", "*", "3", "6", "0", "1">>,
      <<"5", "*", "x", "*", "3">> }

\* Tokens met in payloads of one or two tokens: " 4 ", "1*86401", "-5",
\* "5*2*7", "1*-3"; other whitespace, exponents, fractions of any size,
\* infinities and NaN: "\t5", "5\n", "1e3", "5*1E2", "25e-2*4", "5*0.25", "5.3",
\* "inf", "nan", "5*inf", "5*nan", "-Infinity"; and tokens whose energy lies
\* midway between two millionths of a kWh: "0.5*540", and "1" with "1*88";
\* whitespace of Unicode, a line tabulation and a no-break space: "U+000B 5"
\* and "5 U+00A0"; and durations that are no binary fractions: "1*0.5",
\* "1*0.2", "1*0.1" and "1*0.7".
SpecialTokens ==
    { <<" ", "4", " ">>, <<"1", "*", "8", "6", "4", "0", "1">>, <<"-", "5">>,
      <<"5", "*", "2", "*", "7">>, <<"1", "*", "-", "3">>,
      <<"\t", "5">>, <<"5", "\n">>, <<"1", "e", "3">>, <<"5", "*", "1", "E", "2">>,
      <<"2", "5", "e", "-", "2", "*", "4">>, <<"5", "*", "0", ".", "2", "5">>,
      <<"5", ".", "3">>, <<"i", "n", "f">>, <<"n", "a", "n">>,
      <<"5", "*", "i", "n", "f">>, <<"5", "*", "n", "a", "n">>,
      <<"-", "I", "n", "f", "i", "n", "i", "t", "y">>,
      <<"0", ".", "5", "*", "5", "4", "0">>, <<"1">>, <<"1", "*", "8", "8">>,
      <<"U+000B", "5">>, <<"5", "U+00A0">>,
      <<"1", "*", "0", ".", "5">>, <<"1", "*", "0", ".", "2">>,
      <<"1", "*", "0", ".", "1">>, <<"1", "*", "0", ".", "7">> }

RECURSIVE JoinComma(_)
JoinComma(toks) ==
    IF toks = <<>> THEN <<>>
    ELSE IF Len(toks) = 1 THEN toks[1]
    ELSE toks[1] \o <<",">> \o JoinComma(Tail(toks))

TokenLists == UNION {[1..n -> TokenVocabulary] : n \in 0..MaxTokens}

\* One or two tokens of which one at least is special; "1,1,1*88", three
\* measurements of one hour whose energy is 7773.5 millionths of a kWh;
\* "1*0.7,1*0.2,1000*0.1", whose last span ends next to the first second;
\* "3*3599.5,2*0.2,1000*3600.3", whose spans meet next to the end of hour 0;
\* and "2*3599.7,4*0.3,5", whose last span starts next to the end of hour 0.
SpecialLists ==
    {t \in UNION {[1..n -> TokenVocabulary \cup SpecialTokens] : n \in 1..2} :
        \E i \in 1..Len(t) : t[i] \in SpecialTokens}
    \cup {<< <<"1">>, <<"1">>, <<"1", "*", "8", "8">> >>,
          << <<"1", "*", "0", ".", "7">>, <<"1", "*", "0", ".", "2">>,
             <<"1", "0", "0", "0", "*", "0", ".", "1">> >>,
          << <<"3", "*", "3", "5", "9", "9", ".", "5">>, <<"2", "*", "0", ".", "2">>,
             <<"1", "0", "0", "0", "*", "3", "6", "0", "0", ".", "3">> >>,
          << <<"2", "*", "3", "5", "9", "9", ".", "7">>, <<"4", "*", "0", ".", "3">>,
             <<"5">> >>}

\* The payload of the worked example: "5,3*2,*9,2*0".
ExamplePayload == <<"5", ",", "3", "*", "2", ",", "*", "9", ",", "2", "*", "0">>

Payloads ==
    {NullText} \cup {Text(JoinComma(t)) : t \in TokenLists \cup SpecialLists}
    \cup {Text(ExamplePayload)}

QDevice == <<"D", "A", "C", "0", "0", "0", "0", "1", "A">>

\* A device whose code holds a letter after the digits' place.
QDeviceE == <<"D", "A", "C", "0", "0", "0", "0", "E", "A">>

\* The payloads of the tables of two rows: "2*3000", "4*3000", "5,3*2" and
\* "0.5*540".
PairPayloads ==
    { <<"2", "*", "3", "0", "0", "0">>, <<"4", "*", "3", "0", "0", "0">>,
      <<"5", ",", "3", "*", "2">>, <<"0", ".", "5", "*", "5", "4", "0">> }

PairRows ==
    {[dev_id |-> d, day |-> day, payload |-> Text(p)] :
        d \in {QDevice, QDeviceE}, day \in {0, 1}, p \in PairPayloads}

\* The rows of base: one row of any payload, or two rows, of one (dev_id, day)
\* or not.
QueryBases ==
    {<<[dev_id |-> QDevice, day |-> 0, payload |-> p]>> : p \in Payloads}
    \cup {<<a, b>> : a \in PairRows, b \in PairRows}

InitQuery ==
    /\ qpc = "base"
    /\ q_base \in QueryBases
    /\ q_exploded = <<>>
    /\ q_parsed = <<>>
    /\ q_cumul = <<>>
    /\ q_spans = <<>>
    /\ q_per_hour = <<>>
    /\ q_result = <<>>
    /\ PipelineIdle
    /\ AnalyzerIdle

StepExploded ==
    /\ qpc = "base"
    /\ q_exploded' = Exploded(q_base)
    /\ qpc' = "exploded"
    /\ UNCHANGED <<q_base, q_parsed, q_cumul, q_spans, q_per_hour, q_result>>
    /\ UNCHANGED <<pvars, avars>>

StepParsed ==
    /\ qpc = "exploded"
    /\ q_parsed' = Parsed(q_exploded)
    /\ qpc' = "parsed"
    /\ UNCHANGED <<q_base, q_exploded, q_cumul, q_spans, q_per_hour, q_result>>
    /\ UNCHANGED <<pvars, avars>>

StepCumul ==
    /\ qpc = "parsed"
    /\ \E o \in WindowOrders(q_parsed) : q_cumul' = Cumul(q_parsed, o)
    /\ qpc' = "cumul"
    /\ UNCHANGED <<q_base, q_exploded, q_parsed, q_spans, q_per_hour, q_result>>
    /\ UNCHANGED <<pvars, avars>>

StepSpans ==
    /\ qpc = "cumul"
    /\ q_spans' = Spans(q_cumul)
    /\ qpc' = "spans"
    /\ UNCHANGED <<q_base, q_exploded, q_parsed, q_cumul, q_per_hour, q_result>>
    /\ UNCHANGED <<pvars, avars>>

StepPerHour ==
    /\ qpc = "spans"
    /\ \E per_hour \in PerHour(q_spans) : q_per_hour' = per_hour
    /\ qpc' = "per_hour"
    /\ UNCHANGED <<q_base, q_exploded, q_parsed, q_cumul, q_spans, q_result>>
    /\ UNCHANGED <<pvars, avars>>

StepSelect ==
    /\ qpc = "per_hour"
    /\ \E toward \in RoundingChoices(K_BigQuery, q_per_hour) :
          q_result' = FinalSelect(K_BigQuery, q_per_hour, toward)
    /\ qpc' = "done"
    /\ UNCHANGED <<q_base, q_exploded, q_parsed, q_cumul, q_spans, q_per_hour>>
    /\ UNCHANGED <<pvars, avars>>

NextQuery ==
    \/ StepExploded
    \/ StepParsed
    \/ StepCumul
    \/ StepSpans
    \/ StepPerHour
    \/ StepSelect

SpecQuery == InitQuery /\ [][NextQuery]_vars

\* ------------------------------------- consumption_aggregation.py
\* The columns ConsumptionAnalyzer.__init__ requires, in its order.
required_columns ==
    <<"unit_id", "device_id", "device_version", "data", "hora", "metodo", "consumo_kwh">>

\* The other columns main.py writes to the consolidated file.
OtherColumns == {"data_instalacao", "data_inicio_automacao"}

\* Line 35: the required columns the file lacks, in the order of required_columns.
MissingColumns(columns) ==
    LET Missing(c) == c \notin columns
    IN SelectRows(Missing, required_columns)

NoError == [kind |-> "none", columns |-> <<>>]

\* A device that is neither a DAC nor a DUT.
DX == <<"X", "Y", "Z", "0", "0", "0", "0", "3", "A">>

\* The metodo texts of the rows of the files: the two main.py writes, and two
\* texts of other files, one of which sorts before both.
Direto == <<"d", "i", "r", "e", "t", "o">>

Indireto == <<"i", "n", "d", "i", "r", "e", "t", "o">>

Estimado == <<"e", "s", "t", "i", "m", "a", "d", "o">>

DiretoCapital == <<"D", "i", "r", "e", "t", "o">>

\* A row of a consolidated file; consumo_kwh in millionths of a kWh, metodo
\* a text.
ConsolidatedRow(u, d, date, hour, m, c) ==
    [unit_id |-> u, device_id |-> d, device_version |-> Slice(d, VersionLen),
     data |-> date, hora |-> hour, metodo |-> m, consumo_kwh |-> c]

\* The rows the files read by the analyzer are made of: four devices in one
\* (unit, date, hour) with negative, zero and positive consumption (among
\* them 0.000001, 0.000399 and -0.000400 kWh, which give weights midway
\* between two ten-thousandths and an exact total of 0), and rows of
\* another hour and of another unit; the rows carry four metodo texts.
RowsOfFiles ==
    {ConsolidatedRow(1, d, 0, 0, IF d = D1 THEN Direto ELSE Indireto, c) :
        d \in {D1, D3}, c \in {0 - 100, 0, 100}}
    \cup {ConsolidatedRow(1, D1, 0, 0, Direto, 1),
          ConsolidatedRow(1, D3, 0, 0, Indireto, 399),
          ConsolidatedRow(1, DX, 0, 0, DiretoCapital, 0 - 400)}
    \cup {ConsolidatedRow(1, D2, 0, 0, Estimado, 100),
          ConsolidatedRow(1, D1, 0, 1, Indireto, 100),
          ConsolidatedRow(2, D3, 1, 0, Direto, 300)}

\* A file of more rows: a device whose three consumptions (0.0001, 0.0002
\* and -0.0003 kWh) cancel, beside a device of 0.000001 kWh.
CancellingRows ==
    <<ConsolidatedRow(1, D1, 0, 0, Direto, 100),
      ConsolidatedRow(1, D1, 0, 0, Direto, 100 + 100),
      ConsolidatedRow(1, D1, 0, 0, Direto, 0 - 300),
      ConsolidatedRow(1, D2, 0, 0, Indireto, 1)>>

\* The files the analyzer may be given: no file at the path, files lacking
\* required columns (the file of no column is the empty file), and files
\* with every column and up to MaxRows rows or the rows of CancellingRows.
\* Every value of a row is one the casts of lines 40-48 accept.
InputFiles ==
    {[exists |-> FALSE, columns |-> {}, rows |-> <<>>]}
    \cup {[exists |-> TRUE, columns |-> c \cup o, rows |-> <<>>] :
             c \in SUBSET Range(required_columns) \ {Range(required_columns)},
             o \in {{}, OtherColumns}}
    \cup {[exists |-> TRUE, columns |-> Range(required_columns) \cup OtherColumns, rows |-> r] :
             r \in UNION {[1..n -> RowsOfFiles] : n \in 0..MaxRows} \cup {CancellingRows}}

\* Lines 78-83: the type of a device, by the first three characters of its id.
DUT == <<"D", "U", "T">>

DeviceType(device_id) ==
    IF Slice(device_id, 3) = DAC THEN "DAC"
    ELSE IF Slice(device_id, 3) = DUT THEN "DUT"
    ELSE "OUTRO"

\* Float64 values of the sums and weights: the values of the query, and two
\* values the fractions do not hold.
\* Huge: a finite value of sign n beyond every weight, a consumption divided
\* by a Tiny.
Huge(sign) == [k |-> "huge", n |-> sign, d |-> 1]

\* A finite value the exact sums do not determine: a Tiny divided by a Tiny,
\* Huge values of both signs added.
SomeFinite == [k |-> "some", n |-> 0, d |-> 1]

\* sum() of consumptions in millionths of a kWh.  One value that is not 0
\* is its own sum and a value and its opposite add up to 0; the sum of other
\* values is rounded in binary, a Near of their sum; when three or more
\* values that are not 0 add up to 0, their FLOAT64 sum may be 0 or a Tiny of
\* either sign.
FloatSums(values) ==
    LET NotZero(v) == v # 0
        terms == Len(SelectRows(NotZero, values))
    IN IF SumSeq(values) = 0 /\ terms >= 1 + 1 + 1
       THEN {Whole(0), Tiny(1), Tiny(0 - 1)}
       ELSE IF terms <= 1 \/ SumSeq(values) = 0
       THEN {Whole(SumSeq(values))}
       ELSE {Near(SumSeq(values), 1)}

\* The mark of a weight: the FLOAT64 nearest to its fraction when the sum of
\* the device is 0, or is the whole total among a number of devices that is
\* a power of two; a Near of the fraction otherwise, the sums, the division
\* and the addition being rounded in binary (a device whose sum is a Tiny
\* gets a weight beside 0.5 / qtd_devices_total, not that value).
WeightKind(qtd_devices_total, consumo_device, consumo_total) ==
    IF IsZero(consumo_device) THEN "fin"
    ELSE IF consumo_device = consumo_total /\ consumo_total.k = "fin"
            /\ IsPowerOfTwo(qtd_devices_total) THEN "fin"
    ELSE "near"

\* PesoTotalDevice with a frequency part of 1 / qtd_devices_total.
PesoTotalDeviceWholeFrequency(qtd_devices_total, consumo_device, consumo_total) ==
    IF consumo_total.k = "fin" /\ consumo_total.n = 0
    THEN IF consumo_device.k = "fin" /\ consumo_device.n = 0 THEN NaN
         ELSE Inf(Sign(consumo_device.n))
    ELSE IF consumo_total.k = "tiny"
    THEN IF consumo_device.k = "tiny" THEN SomeFinite
         ELSE IF consumo_device.n = 0 THEN Fin(1, qtd_devices_total)
         ELSE Huge(Sign(consumo_device.n) * consumo_total.n)
    ELSE LET c == IF consumo_device.k = "tiny" THEN 0 ELSE consumo_device.n
             t == consumo_total.n
         IN [Rat(Sign(t) * (2 * t + qtd_devices_total * c),
                 2 * qtd_devices_total * Sign(t) * t)
                EXCEPT !.k = WeightKind(qtd_devices_total, consumo_device, consumo_total)]

\* Lines 107-113: peso_total_device = 0.5 / qtd_devices_total
\* + 0.5 * (consumo_device / consumo_total), of the FLOAT64 sums of the device
\* and of the cohort. A total of 0 gives NaN for a device of consumption 0
\* and an infinity otherwise; a Tiny total gives a Huge weight; a Tiny
\* consumption under another total counts as 0 in the fraction of the
\* weight, which is then a Near.
PesoTotalDevice(qtd_devices_total, consumo_device, consumo_total) ==
    IF consumo_total.k = "fin" /\ consumo_total.n = 0
    THEN IF consumo_device.k = "fin" /\ consumo_device.n = 0 THEN NaN
         ELSE Inf(Sign(consumo_device.n))
    ELSE IF consumo_total.k = "tiny"
    THEN IF consumo_device.k = "tiny" THEN SomeFinite
         ELSE IF consumo_device.n = 0 THEN Fin(1, 2 * qtd_devices_total)
         ELSE Huge(Sign(consumo_device.n) * consumo_total.n)
    ELSE LET c == IF consumo_device.k = "tiny" THEN 0 ELSE consumo_device.n
             t == consumo_total.n
         IN [Rat(Sign(t) * (t + qtd_devices_total * c),
                 2 * qtd_devices_total * Sign(t) * t)
                EXCEPT !.k = WeightKind(qtd_devices_total, consumo_device, consumo_total)]

\* The sum of the fractions of a sequence of finite values.
RECURSIVE SumOfFinite(_)
SumOfFinite(ws) ==
    IF ws = <<>> THEN Whole(0)
    ELSE LET rest == SumOfFinite(Tail(ws))
         IN Rat(Head(ws).n * rest.d + rest.n * Head(ws).d, Head(ws).d * rest.d)

\* mean() of the weights of a type: null when the type has no device; the
\* mean of one weight is that weight, the mean of binary fractions whose
\* number is a power of two is their mean, any other mean is rounded.
Mean(ws) ==
    LET Has(kind, sign) == \E i \in 1..Len(ws) : ws[i].k = kind /\ ws[i].n = sign
        HasKind(kind) == \E i \in 1..Len(ws) : ws[i].k = kind
        unrounded == \/ Len(ws) = 1 /\ ws[1].k = "fin"
                     \/ /\ IsPowerOfTwo(Len(ws))
                        /\ \A i \in 1..Len(ws) : Exact(ws[i])
    IN IF ws = <<>> THEN [k |-> "null", n |-> 0, d |-> 1]
       ELSE IF HasKind("nan") THEN NaN
       ELSE IF Has("inf", 1) /\ Has("inf", 0 - 1) THEN NaN
       ELSE IF HasKind("inf") THEN Inf(IF Has("inf", 1) THEN 1 ELSE 0 - 1)
       ELSE IF HasKind("some") \/ (Has("huge", 1) /\ Has("huge", 0 - 1)) THEN SomeFinite
       ELSE IF HasKind("huge") THEN Huge(IF Has("huge", 1) THEN 1 ELSE 0 - 1)
       ELSE [Rat(SumOfFinite(ws).n, Len(ws) * SumOfFinite(ws).d)
                EXCEPT !.k = IF unrounded THEN "fin" ELSE "near"]

\* round(4) of the fraction n / d, in ten-thousandths.  The value rounded is
\* a binary FLOAT64: when the fraction lies midway between two
\* ten-thousandths the FLOAT64 may lie on either side, and the rounding rule
\* for a half differs between versions of polars, so the result is the
\* ten-thousandth toward zero (toward) or the one away from zero.
Round4(n, d, toward) ==
    LET g == Gcd(10000, d)
    IN IF toward THEN RoundDivToward((10000 \div g) * n, d \div g)
       ELSE RoundDiv((10000 \div g) * n, d \div g)

\* fill_null(0.0).round(4): the weight in ten-thousandths; NaN and the
\* infinities stay what they are, and so do the values beyond the fractions.
FillNullRound4(w, toward) ==
    IF w.k = "null" THEN [k |-> "fin", v |-> 0]
    ELSE IF w.k \in {"fin", "near"} THEN [k |-> "fin", v |-> Round4(w.n, w.d, toward)]
    ELSE IF w.k = "nan" THEN [k |-> "nan", v |-> 0]
    ELSE [k |-> w.k, v |-> w.n]

\* The devices of a set, as a sequence.
DeviceSeq(S) ==
    LET Less(a, b) == SeqLess(TextKey(a), TextKey(b))
    IN SortRows(Less, S)

\* The consumptions of the rows of a device in the rows of an hour.
ConsumoRows(grp, d) ==
    LET Of(r) == r.device_id = d
        rows == SelectRows(Of, grp)
    IN [i \in 1..Len(rows) |-> rows[i].consumo_kwh]

\* Lines 85-88: consumo_device, the sums the consumptions of a device may give.
ConsumoDevice(grp, d) == FloatSums(ConsumoRows(grp, d))

\* Lines 92-98: consumo_total, the sums the consumptions of the hour may give.
ConsumoTotal(grp) == FloatSums([i \in 1..Len(grp) |-> grp[i].consumo_kwh])

\* The sums of one run of the aggregation on the rows of an hour: the total
\* and the sum of each device.
CohortSums(grp) ==
    LET devices == {grp[i].device_id : i \in 1..Len(grp)}
        values == UNION {ConsumoDevice(grp, d) : d \in devices}
    IN {[total |-> t, device |-> f] :
           t \in ConsumoTotal(grp),
           f \in {g \in [devices -> values] : \A d \in devices : g[d] \in ConsumoDevice(grp, d)}}

\* Lines 74-115: the rows of df_with_weights of a (unit_id, data, hora), one
\* per device of the hour, for the sums of the run.  The frame has no order
\* of its own and no two equal rows: it is the set of its rows.
DeviceWeights(grp, key, sums) ==
    LET devices == {grp[i].device_id : i \in 1..Len(grp)}
    IN {[unit_id |-> key[1], data |-> key[2], hora |-> key[3],
         device_id |-> d, device_type |-> DeviceType(d),
         consumo_device |-> sums.device[d],
         qtd_devices_total |-> Cardinality(devices),
         consumo_total |-> sums.total,
         peso_total_device |->
             PesoTotalDevice(Cardinality(devices), sums.device[d], sums.total)] :
           d \in devices}

\* Lines 128-129 and 144-145: peso_medio of a device type, from the rows of
\* df_with_weights of an hour, for the side a half is rounded to.
PesoMedio(weights, type, toward) ==
    LET of_type == DeviceSeq({w.device_id : w \in {x \in weights : x.device_type = type}})
        Weight(d) == (CHOOSE w \in weights : w.device_id = d).peso_total_device
    IN FillNullRound4(Mean([i \in 1..Len(of_type) |-> Weight(of_type[i])]), toward)

\* Metodos taking the method of every row, in the order of the rows.
MetodosOfEveryRow(grp) == [i \in 1..Len(grp) |-> grp[i].metodo]

\* Line 137: unique().sort(), the distinct metodo texts of the rows of an
\* hour in the order of their characters' codes.
Metodos(grp) ==
    LET Less(a, b) == SeqLess(TextKey(a), TextKey(b))
    IN SortRows(Less, {grp[i].metodo : i \in 1..Len(grp)})

\* Line 137: str.join(', '), the texts of a list with the separator between them.
RECURSIVE StrJoin(_, _)
StrJoin(parts, sep) ==
    IF parts = <<>> THEN <<>>
    ELSE IF Len(parts) = 1 THEN parts[1]
    ELSE parts[1] \o sep \o StrJoin(Tail(parts), sep)

\* Lines 118-160: the row of df_availability of a (unit_id, data, hora), from
\* the rows of df_with_weights of the hour and the rows of the file, for the
\* sides the halves are rounded to; consumo_kwh_total in ten-thousandths of
\* a kWh.
AvailabilityRow(grp, key, weights, toward) ==
    LET devices == {w.device_id : w \in weights}
        consumo_total == (CHOOSE w \in weights : TRUE).consumo_total
    IN [unit_id |-> key[1], data |-> key[2], hora |-> key[3],
        qtd_devices_total |-> Cardinality(devices),
        qtd_dac |-> Cardinality({w.device_id : w \in {x \in weights : x.device_type = "DAC"}}),
        qtd_dut |-> Cardinality({w.device_id : w \in {x \in weights : x.device_type = "DUT"}}),
        peso_medio_dac |-> PesoMedio(weights, "DAC", toward.dac),
        peso_medio_dut |-> PesoMedio(weights, "DUT", toward.dut),
        consumo_kwh_total |->
            IF consumo_total.k = "tiny" THEN 0
            ELSE Round4(consumo_total.n, MicroPerUnit, toward.total),
        metodos |-> StrJoin(Metodos(grp), <<",", " ">>)]

\* What a run may give for a (unit_id, data, hora): its rows of
\* df_with_weights and its row of df_availability.
AvailabilityRows(rows, key) ==
    LET In(r) == r.unit_id = key[1] /\ r.data = key[2] /\ r.hora = key[3]
        grp == SelectRows(In, rows)
    IN UNION {{[weights |-> weights, row |-> AvailabilityRow(grp, key, weights, toward)] :
                  toward \in [dac : BOOLEAN, dut : BOOLEAN, total : BOOLEAN]} :
                weights \in {DeviceWeights(grp, key, sums) : sums \in CohortSums(grp)}}

\* What a run may give for the (unit_id, data, hora) of a list, in its order.
RECURSIVE AvailabilityRuns(_, _)
AvailabilityRuns(rows, keys) ==
    IF keys = <<>> THEN {<<>>}
    ELSE {<<first>> \o rest : first \in AvailabilityRows(rows, Head(keys)),
                              rest \in AvailabilityRuns(rows, Tail(keys))}

\* aggregate_device_availability_by_hour: df_with_weights, and df_availability
\* with one row per (unit_id, data, hora), sorted by them; what the
\* aggregation may give.
AggregateDeviceAvailabilityByHour(rows) ==
    LET keys == {<<rows[i].unit_id, rows[i].data, rows[i].hora>> : i \in 1..Len(rows)}
    IN {[df_with_weights |-> UNION {run[i].weights : i \in 1..Len(run)},
         df_availability |-> [i \in 1..Len(run) |-> run[i].row]] :
           run \in AvailabilityRuns(rows, SortRows(SeqLess, keys))}

\* The limits detect_low_availability_hours may be given; None is the default.
ExpectedDacs == {NullNum, Num(0), Num(1), Num(1 + 1)}

ExpectedDuts == {NullNum, Num(1)}

NoArgs == [df_availability |-> <<>>, min_dac_expected |-> NullNum, min_dut_expected |-> NullNum]

Reverse(s) == [i \in 1..Len(s) |-> s[Len(s) + 1 - i]]

\* The rows of a frame, each counting one DAC more.
Recounted(frame) == [i \in 1..Len(frame) |-> [frame[i] EXCEPT !.qtd_dac = @ + 1]]

\* The frames detect_low_availability_hours may be given: the aggregate, its
\* rows in the opposite order, and a frame out of key order that holds every
\* row of the aggregate twice and, for every (unit_id, data, hora), a row
\* that differs from them.
LowAvailabilityInputs(aggregate) ==
    {aggregate, Reverse(aggregate),
     Reverse(aggregate) \o aggregate \o Recounted(aggregate)}

\* CombinedFilter with the given limits combined with AND.
CombinedFilterAnd(r, min_dac_expected, min_dut_expected) ==
    /\ min_dac_expected.null \/ r.qtd_dac < min_dac_expected.v
    /\ min_dut_expected.null \/ r.qtd_dut < min_dut_expected.v

\* Lines 187-200: the filters of the limits that are given, combined with OR.
CombinedFilter(r, min_dac_expected, min_dut_expected) ==
    \/ ~min_dac_expected.null /\ r.qtd_dac < min_dac_expected.v
    \/ ~min_dut_expected.null /\ r.qtd_dut < min_dut_expected.v

\* The orders a sequence of rows may be put in.
RECURSIVE Orders(_)
Orders(rows) ==
    IF rows = <<>> THEN {<<>>}
    ELSE UNION {{<<rows[i]>> \o rest :
                    rest \in Orders(SubSeq(rows, 1, i - 1) \o SubSeq(rows, i + 1, Len(rows)))} :
                  i \in 1..Len(rows)}

\* Line 202: sort(['unit_id', 'data', 'hora']), which keeps every row and
\* does not say in which order it leaves the rows of one
\* (unit_id, data, hora): the frames the sort may give.
RECURSIVE SortByKey(_, _)
SortByKey(rows, keys) ==
    IF keys = <<>> THEN {<<>>}
    ELSE LET Of(r) == <<r.unit_id, r.data, r.hora>> = Head(keys)
         IN {first \o rest : first \in Orders(SelectRows(Of, rows)),
                             rest \in SortByKey(rows, Tail(keys))}

\* detect_low_availability_hours: the frame itself with no limit given,
\* otherwise its rows that pass the filter, every one as often as the frame
\* holds it, sorted by (unit_id, data, hora); the frames the call may return.
DetectLowAvailabilityHours(frame, min_dac_expected, min_dut_expected) ==
    IF min_dac_expected.null /\ min_dut_expected.null THEN {frame}
    ELSE LET Low(r) == CombinedFilter(r, min_dac_expected, min_dut_expected)
             low == SelectRows(Low, frame)
             keys == {<<low[i].unit_id, low[i].data, low[i].hora>> : i \in 1..Len(low)}
         IN SortByKey(low, SortRows(SeqLess, keys))

\* The analyzer is given a path.
InitAnalyzer ==
    /\ QueryIdle
    /\ PipelineIdle
    /\ apc = "start"
    /\ input_csv \in InputFiles
    /\ df = <<>>
    /\ error = NoError
    /\ df_with_weights = {}
    /\ df_availability = <<>>
    /\ low_args = NoArgs
    /\ df_low_availability = <<>>

\* ConsumptionAnalyzer.__init__: no file at the path gives FileNotFoundError
\* (lines 24-25); pl.read_csv (line 28) raises NoDataError on a file that
\* holds no column, the empty file; a file lacking required columns gives
\* ValueError with their names (lines 34-37); otherwise the rows are loaded.
LoadCsv ==
    /\ apc = "start"
    /\ IF ~input_csv.exists
       THEN /\ apc' = "failed"
            /\ error' = [kind |-> "FileNotFoundError", columns |-> <<>>]
            /\ UNCHANGED df
       ELSE IF input_csv.columns = {}
       THEN /\ apc' = "failed"
            /\ error' = [kind |-> "NoDataError", columns |-> <<>>]
            /\ UNCHANGED df
       ELSE IF MissingColumns(input_csv.columns) # <<>>
       THEN /\ apc' = "failed"
            /\ error' = [kind |-> "ValueError", columns |-> MissingColumns(input_csv.columns)]
            /\ UNCHANGED df
       ELSE /\ apc' = "loaded"
            /\ df' = input_csv.rows
            /\ UNCHANGED error
    /\ UNCHANGED <<input_csv, df_with_weights, df_availability, low_args, df_low_availability>>
    /\ UNCHANGED <<qvars, pvars>>

\* aggregate_device_availability_by_hour on the loaded rows gives one of the
\* results it may give.
Aggregate ==
    /\ apc = "loaded"
    /\ apc' = "aggregated"
    /\ \E run \in AggregateDeviceAvailabilityByHour(df) :
          /\ df_with_weights' = run.df_with_weights
          /\ df_availability' = run.df_availability
    /\ UNCHANGED <<input_csv, df, error, low_args, df_low_availability>>
    /\ UNCHANGED <<qvars, pvars>>

\* detect_low_availability_hours is called with a frame and its limits.
DetectLowAvailability ==
    /\ apc = "aggregated"
    /\ apc' = "detected"
    /\ \E frame \in LowAvailabilityInputs(df_availability) :
       \E min_dac_expected \in ExpectedDacs : \E min_dut_expected \in ExpectedDuts :
          /\ low_args' = [df_availability |-> frame,
                          min_dac_expected |-> min_dac_expected,
                          min_dut_expected |-> min_dut_expected]
          /\ df_low_availability' \in
                 DetectLowAvailabilityHours(frame, min_dac_expected, min_dut_expected)
    /\ UNCHANGED <<input_csv, df, error, df_with_weights, df_availability>>
    /\ UNCHANGED <<qvars, pvars>>

NextAnalyzer ==
    \/ LoadCsv
    \/ Aggregate
    \/ DetectLowAvailability

SpecAnalyzer == InitAnalyzer /\ [][NextAnalyzer]_vars
\* ------------------------------------------- properties of the query
\* The table holds one row: the query reads one (device, date, payload).
OnePayload == Len(q_base) = 1

QueryPayload == q_base[1].payload

AfterParsed == qpc \in {"parsed", "cumul", "spans", "per_hour", "done"}

AfterCumul == qpc \in {"cumul", "spans", "per_hour", "done"}

AfterSpans == qpc \in {"spans", "per_hour", "done"}

AfterPerHour == qpc \in {"per_hour", "done"}

\* x >= 0 of a value: a number or infinity that is not below 0.
NonNegative(x) == x.k # "nan" /\ ~Lt(x, Whole(0))

\* The overlap seconds of one span summed over the hours of its hour range,
\* for each value the ends of the range may take.
OverlapTotal(s) ==
    {LET hours == GenerateArray(lo, hi)
     IN SumValues([k \in 1..Len(hours) |-> OverlapSeconds(s, hours[k])]) :
        lo \in FirstHour(s), hi \in FinalHour(s)}

\* C1: for every span of positive duration, whole-second or not, the overlap
\* seconds summed over the hours floor(start_sec/3600)..floor((end_sec-1)/3600)
\* equal end_sec - start_sec.
C1_OverlapConservation ==
    AfterSpans =>
        \A i \in 1..Len(q_spans) :
            Gt(q_spans[i].end_sec, q_spans[i].start_sec)
                => OverlapTotal(q_spans[i]) = {Sub(q_spans[i].end_sec, q_spans[i].start_sec)}

\* The tokens of the payload, trimmed.
PayloadTokens ==
    LET parts == Split(QueryPayload.str, ",")
    IN [i \in 1..Len(parts) |-> Trim(parts[i])]

Numeric(s) == ~SafeCastFloat(Text(s)).null

Value(s) == SafeCastFloat(Text(s)).v

Emitted(i) == \E k \in 1..Len(q_parsed) : q_parsed[k].idx = i - 1

\* The token has a current: it is not empty, does not start with "*", and the
\* text before its first "*" is a number.
HasCurrent(tok) ==
    /\ tok # <<>>
    /\ tok[1] # "*"
    /\ Numeric(Split(tok, "*")[1])

\* The duration as C9 states it: 1 when the token has no duration part, the
\* number of the duration part otherwise; a part that is no number gives none.
StatedDurationPositive(tok) ==
    LET parts == Split(tok, "*")
    IN IF Len(parts) = 1 THEN TRUE
       ELSE Numeric(parts[2]) /\ Gt(Value(parts[2]), Whole(0))

\* The duration with a part that is absent or no number taken as 1.
DefaultedDuration(tok) ==
    LET parts == Split(tok, "*")
    IN IF Len(parts) >= 2 /\ Numeric(parts[2]) THEN Value(parts[2]) ELSE Whole(1)

OrderKept == \A k \in 1..(Len(q_parsed) - 1) : q_parsed[k].idx < q_parsed[k + 1].idx

\* C9: a token is emitted exactly when, trimmed, it is not empty, does not
\* start with "*", has a number before its first "*", and its duration, 1
\* when absent, is > 0; order is kept; an empty or NULL payload gives no
\* measurement (the query has no step that raises: SAFE_CAST and SAFE_OFFSET
\* give NULL).
C9_EmittedIffStated ==
    (AfterParsed /\ OnePayload) =>
        /\ (QueryPayload.null \/ QueryPayload.str = <<>>) => q_parsed = <<>>
        /\ ~QueryPayload.null =>
              \A i \in 1..Len(PayloadTokens) :
                  Emitted(i) <=> (HasCurrent(PayloadTokens[i])
                                    /\ StatedDurationPositive(PayloadTokens[i]))
        /\ OrderKept

IsExample == q_base = <<[dev_id |-> QDevice, day |-> 0, payload |-> Text(ExamplePayload)]>>

\* C10: the payload "5,3*2,*9,2*0" gives the measurements (5,1),(3,2), the
\* spans (0,1),(1,3) and, with K = 300, one record, of hour 0, of 0.000917 kWh.
C10_WorkedExample ==
    IsExample =>
        /\ AfterParsed =>
              /\ Len(q_parsed) = 2
              /\ q_parsed[1].corrente = Whole(5) /\ q_parsed[1].tempo_seg = Whole(1)
              /\ q_parsed[2].corrente = Whole(3) /\ q_parsed[2].tempo_seg = Whole(2)
        /\ AfterSpans =>
              /\ Len(q_spans) = 2
              /\ q_spans[1].start_sec = Whole(0) /\ q_spans[1].end_sec = Whole(1)
              /\ q_spans[2].start_sec = Whole(1) /\ q_spans[2].end_sec = Whole(3)
        /\ AfterPerHour =>
              \A toward \in RoundingChoices(300 * 100, q_per_hour) :
                  FinalSelect(300 * 100, q_per_hour, toward) =
                      <<[device_id |-> QDevice, data |-> 0, hora |-> 0,
                         consumo_kwh |-> Rat(917, MicroPerUnit)]>>
        /\ qpc = "done" => (Len(q_result) = 1 /\ q_result[1].hora = 0)

\* The query has run to its end on the example payload.
C10_Witness == IsExample /\ qpc = "done"

\* The spans of one (device, date), in the order the window took them.
PartitionSpans(p) ==
    LET In(s) == SamePartition(s, p)
    IN SelectRows(In, q_spans)

\* The time the emitted tokens of the payload take, by the payload's text.
EmittedTime ==
    SumValues([i \in 1..Len(PayloadTokens) |->
                  IF Emitted(i) THEN DefaultedDuration(PayloadTokens[i]) ELSE Whole(0)])

\* C11: the spans of a (device, date) follow the token order of the surviving
\* measurements; the first starts at 0, each lasts its measurement's duration,
\* each next one starts where the one before ends, and the durations sum to the
\* final cumulative_end, the dropped tokens taking no time.
C11_SpanContiguity ==
    AfterSpans =>
        /\ Len(q_spans) = Len(q_parsed)
        /\ \A i \in 1..Len(q_spans) :
              LET spans == PartitionSpans(q_spans[i])
              IN /\ spans[1].start_sec = Whole(0)
                 /\ \A k \in 1..Len(spans) :
                       /\ Sub(spans[k].end_sec, spans[k].start_sec) = spans[k].tempo_seg
                       /\ Gt(spans[k].end_sec, spans[k].start_sec)
                 /\ \A k \in 1..(Len(spans) - 1) :
                       /\ spans[k + 1].start_sec = spans[k].end_sec
                       /\ spans[k + 1].idx >= spans[k].idx
                 /\ SumValues([k \in 1..Len(spans) |-> spans[k].tempo_seg])
                       = spans[Len(spans)].end_sec
        /\ (OnePayload /\ q_spans # <<>>) =>
              /\ \A i \in 1..Len(q_spans) : q_spans[i].idx = q_parsed[i].idx
              /\ q_spans[Len(q_spans)].end_sec = q_cumul[Len(q_cumul)].cumulative_end
              /\ q_spans[Len(q_spans)].end_sec = EmittedTime

NonNegativeCurrents == \A i \in 1..Len(q_parsed) : NonNegative(q_parsed[i].corrente)

\* C13: when every parsed current of the payload is >= 0, every consumo_kwh
\* the direct computation gives for a (device, date, hour) is >= 0.
C13_EnergyNonNegative ==
    (qpc = "done" /\ NonNegativeCurrents) =>
        \A k \in 1..Len(q_result) : NonNegative(q_result[k].consumo_kwh)

\* A payload of several measurements, all of non-negative current, that gives
\* records of positive energy in more than one hour.
C13_Witness ==
    /\ qpc = "done"
    /\ NonNegativeCurrents
    /\ Len(q_parsed) >= 2
    /\ Len(q_result) >= 2
    /\ \A k \in 1..Len(q_result) : Gt(q_result[k].consumo_kwh, Whole(0))

\* The groups whose FLOAT64 sum has three terms or more: the order in which
\* the engine adds them is free, and the sum changes with it.
OrderFreeKeys(per_hour) == {key \in HourKeys(per_hour) : Len(HourGroup(per_hour, key)) >= 3}

\* C14: two runs of the query on the same (device, date, payload) give the
\* same records: whatever the order in which the engine adds the terms of a
\* sum, the sums of one or two terms falling the same way in both runs.
C14_Idempotent ==
    (OnePayload /\ qpc = "per_hour") =>
        \A t1 \in RoundingChoices(K_BigQuery, q_per_hour) :
            \A t2 \in RoundingChoices(K_BigQuery, q_per_hour) :
                (t1 \ OrderFreeKeys(q_per_hour) = t2 \ OrderFreeKeys(q_per_hour))
                    => FinalSelect(K_BigQuery, q_per_hour, t1)
                           = FinalSelect(K_BigQuery, q_per_hour, t2)

\* The token has a current and a duration part that is no number.
NonNumericDuration(tok) ==
    /\ HasCurrent(tok)
    /\ Len(Split(tok, "*")) >= 2
    /\ ~Numeric(Split(tok, "*")[2])

\* The token without its second "*" and what follows it.
UpToSecondStar(tok) ==
    LET parts == Split(tok, "*")
    IN IF Len(parts) <= 2 THEN tok ELSE parts[1] \o <<"*">> \o parts[2]

\* The cumulative clock before the k-th measurement.
ClockBefore(k) == IF k = 1 THEN Whole(0) ELSE q_cumul[k - 1].cumulative_end

\* C27: a token whose current parses and whose duration part is present and
\* no number (such as "5*x") is kept as a measurement of that current lasting
\* 1 second, and advances the cumulative clock by exactly 1 second; what
\* follows a second "*" in a token changes neither whether the token is kept
\* nor its current and duration.
C27_NonNumericDuration ==
    (AfterCumul /\ OnePayload /\ ~QueryPayload.null) =>
        \A i \in 1..Len(PayloadTokens) :
            LET tok == PayloadTokens[i]
            IN /\ NonNumericDuration(tok) =>
                     \E k \in 1..Len(q_cumul) :
                         /\ q_cumul[k].idx = i - 1
                         /\ q_cumul[k].corrente = Value(Split(tok, "*")[1])
                         /\ q_cumul[k].tempo_seg = Whole(1)
                         /\ q_cumul[k].cumulative_end = Add(ClockBefore(k), Whole(1))
               /\ Emitted(i) <=> (HasCurrent(UpToSecondStar(tok))
                                    /\ Gt(DefaultedDuration(UpToSecondStar(tok)), Whole(0)))
               /\ \A k \in 1..Len(q_cumul) :
                     q_cumul[k].idx = i - 1 =>
                         /\ q_cumul[k].corrente = Value(Split(UpToSecondStar(tok), "*")[1])
                         /\ q_cumul[k].tempo_seg = DefaultedDuration(UpToSecondStar(tok))

\* A payload with the token "5*x" after an emitted token, and a token with a
\* second "*" after a duration part that is no number, all emitted.
C27_Witness ==
    /\ qpc = "done"
    /\ OnePayload
    /\ ~QueryPayload.null
    /\ Len(q_cumul) = 1 + 1 + 1
    /\ \E i \in 2..Len(PayloadTokens) :
          /\ NonNumericDuration(PayloadTokens[i])
          /\ Len(Split(PayloadTokens[i], "*")) = 2
          /\ Emitted(i - 1)
    /\ \E i \in 1..Len(PayloadTokens) :
          /\ NonNumericDuration(PayloadTokens[i])
          /\ Len(Split(PayloadTokens[i], "*")) > 2
          /\ Emitted(i)

\* ------------------------------------------------ the run of main.py
RosterDevices == {d.device_code : d \in BagToSet(df_devices_by_units)}

DirectRecords == BagToSet(Concat(all_consumption_data))

HasDirectRecord(d) == \E r \in DirectRecords : r.device_id = d

Queued(d) == \E r \in BagToSet(df_devices_for_indirect) : r.device_code = d

Queried(d) == \E q \in BagToSet(indirect_queries) : q.device_code = d

\* C2 as stated: in every run that ends, the run with no surviving direct
\* record included, every roster device with no surviving direct record is
\* queued for the indirect method and queried.
C2_FallbackInEveryRun ==
    pc \in {"done", "fatal"} =>
        \A d \in RosterDevices : ~HasDirectRecord(d) => Queued(d) /\ Queried(d)

\* C2 amended: in every run that runs to completion with at least one
\* surviving direct record, every roster device with no surviving direct
\* record is queued for the indirect method and queried.
C2_FallbackWhenDirectSurvives ==
    pc = "done" =>
        \A d \in RosterDevices : ~HasDirectRecord(d) => Queued(d) /\ Queried(d)

\* A finished run in which a device has direct rows and another device of the
\* same version has none and was queried.
C2_Witness ==
    /\ pc = "done"
    /\ \E d \in RosterDevices, e \in RosterDevices :
          /\ d # e
          /\ Slice(d, VersionLen) = Slice(e, VersionLen)
          /\ HasDirectRecord(d)
          /\ ~HasDirectRecord(e)
          /\ Queried(e)

FileRows == BagToSet(file)

FileHas(m) == \E r \in FileRows : r.metodo = m

\* The rows the direct queries of the run returned.
RawDirect == UNION {Range(direct_results[i]) : i \in 1..Len(direct_results)}

\* The window of the unit that owns a device.
OwnerWindows(d) ==
    {u \in Range(df_units) :
        \E r \in BagToSet(df_devices_by_units) :
            r.device_code = d /\ r.unit_id = u.id_bradesco}

Available(d, date) ==
    \E a \in BagToSet(df_disponibility) : a.device_code = d /\ a.record_date = date

\* C3: every record of the consolidated output, of either method, is dated
\* within install_date..automation_start_date of the unit owning its device.
C3_TemporalWindow ==
    \A r \in FileRows :
        /\ OwnerWindows(r.device_id) # {}
        /\ \A u \in OwnerWindows(r.device_id) :
              /\ u.data_instalacao <= r.data
              /\ r.data <= u.data_inicio_automacao

\* A file with records of both methods, written in a run whose direct query
\* returned a positive record of a roster device with availability, dated
\* after the automation start of the device's unit.
C3_Witness ==
    /\ pc = "done"
    /\ FileHas("direto")
    /\ FileHas("indireto")
    /\ \E r \in RawDirect :
          /\ Gt(r.consumo_kwh, Whole(0))
          /\ Available(r.device_id, r.data)
          /\ \E u \in OwnerWindows(r.device_id) : r.data > u.data_inicio_automacao

\* C4: every record of the consolidated output, of either method, has an
\* availability record for its device and date.
C4_AvailabilityGating ==
    \A r \in FileRows : Available(r.device_id, r.data)

\* A file with records of both methods, written in a run whose direct query
\* returned a positive record inside the window for a device and date with no
\* availability record.
C4_Witness ==
    /\ pc = "done"
    /\ FileHas("direto")
    /\ FileHas("indireto")
    /\ \E r \in RawDirect :
          /\ Gt(r.consumo_kwh, Whole(0))
          /\ ~Available(r.device_id, r.data)
          /\ \E u \in OwnerWindows(r.device_id) :
                u.data_instalacao <= r.data /\ r.data <= u.data_inicio_automacao

\* The roster devices with the dates of their units.
RosterWindows == BagToSet(DevicesForIndirect(EmptyBag, df_devices_by_units, df_units))

\* A record of (device, date, hour) with positive consumption passes the
\* filters of the direct path (lines 158-168).
DirectAdmits(w, date, hour) ==
    LET r == [unit_id |-> w.unit_id, device_id |-> w.device_code,
              device_version |-> Slice(w.device_code, VersionLen),
              hora |-> hour, data |-> date, consumo_kwh |-> Whole(1),
              data_instalacao |-> w.data_instalacao,
              data_inicio_automacao |-> w.data_inicio_automacao, metodo |-> "direto"]
    IN BagToSet(AvailabilityJoin(Filter(DirectFilter, SetToBag({r})), df_disponibility)) # {}

\* The same record passes the indirect path: the query's window (lines
\* 237-247) and the standardization (lines 264-284).
IndirectAdmits(w, date, hour) ==
    LET got == GetDeviceConsumptionsByIndirectMethod(
                   <<IndirectRow(w.device_code, date, hour, 1)>>, w.device_code,
                   w.data_instalacao, w.data_inicio_automacao)
    IN BagToSet(IndirectStandardized(got, SetToBag({w}), df_disponibility)) # {}

\* C5: for the same device window and availability set a (device, date, hour)
\* passes the direct path's filter exactly when it passes the indirect path's;
\* every hour 0-23 of the automation start day is admitted by both.
C5_FiltersIdentical ==
    pc \in {"query_families", "direct", "consolidate", "indirect", "standardize", "done", "fatal"} =>
        \A w \in RosterWindows : \A date \in Dates : \A hour \in 0..LastHour :
            DirectAdmits(w, date, hour) <=> IndirectAdmits(w, date, hour)

SameKey(a, b) == a.device_id = b.device_id /\ a.data = b.data /\ a.hora = b.hora

\* C6: no (device_id, date, hour) of the consolidated output carries both a
\* direct and an indirect record.
C6_OneMethodPerKey ==
    \A a \in FileRows : \A b \in FileRows : SameKey(a, b) => a.metodo = b.metodo

\* A file with records of both methods for the same date and hour.
C6_Witness ==
    /\ pc = "done"
    /\ \E a \in FileRows : \E b \in FileRows :
          /\ a.metodo = "direto"
          /\ b.metodo = "indireto"
          /\ a.data = b.data
          /\ a.hora = b.hora

\* C7: the direct records of the consolidated output hold one row per
\* (device_id, date, hour), whatever the availability query returns.
C7_DirectRowsUnique ==
    \A a \in FileRows : \A b \in FileRows :
        (a.metodo = "direto" /\ b.metodo = "direto" /\ SameKey(a, b))
            => (a = b /\ CopiesIn(a, file) = 1)

Terminal == pc \in {"done", "fatal", "aborted"}

\* C8 as stated: with no surviving direct record the run ends in the error
\* state with no save and no file; whenever a direct record survives, the
\* file is written exactly once by the end of the run.
C8_WrittenWheneverDirectSurvives ==
    /\ pc = "fatal" => (all_consumption_data = <<>> /\ saves = 0 /\ BagToSet(file) = {})
    /\ (Terminal /\ all_consumption_data # <<>>) => saves = 1

\* C8 amended: with no surviving direct record the run ends in the error state
\* with no save and no file; when a direct record survives and every later
\* query returns, the file is written exactly once; a run that a failing query
\* ends writes no file.
C8_FatalEmptyResult ==
    /\ saves <= 1
    /\ pc = "fatal" => (all_consumption_data = <<>> /\ saves = 0 /\ BagToSet(file) = {})
    /\ pc = "done" => (all_consumption_data # <<>> /\ saves = 1 /\ BagToSet(file) # {})
    /\ pc \in {"indirect", "standardize"} => (all_consumption_data # <<>> /\ saves = 0)
    /\ pc \notin {"done"} => (saves = 0 /\ BagToSet(file) = {})

\* The error state reached although a direct query returned rows for a device
\* of the roster.
C8_Witness ==
    /\ pc = "fatal"
    /\ \E r \in RawDirect : r.device_id \in RosterDevices

\* The spans the telemetry rows of a device and date may give, one sequence
\* for each window order.
SpansOf(table, dev, day) ==
    LET Of(b) == b.dev_id = dev /\ b.day = day
        parsed == Parsed(Exploded(SelectRows(Of, table)))
    IN {Spans(Cumul(parsed, o)) : o \in WindowOrders(parsed)}

\* The energies the spans may hold in an hour, by their overlap with it alone.
HourEnergy(spans, hour) ==
    LET In(s) == Gt(OverlapSeconds(s, hour), Whole(0))
        inside == SelectRows(In, spans)
        rows == [i \in 1..Len(inside) |->
                    [corrente |-> inside[i].corrente,
                     overlap_seconds |-> OverlapSeconds(inside[i], hour)]]
    IN {ConsumoKwh(K_BigQuery, rows, toward) : toward \in BOOLEAN}

\* C12: every record of the consolidated output has hora in 0..23, and every
\* record a direct query returns has hora in 0..23 and holds the energy of
\* that hour only: what lies past hour 23 adds to no record.  The records of
\* a query are looked at in the state the query has just returned in.
C12_HourRange ==
    /\ \A r \in FileRows : r.hora >= 0 /\ r.hora <= LastHour
    /\ (pc \in {"direct", "consolidate"} /\ direct_results # <<>>) =>
          LET j == Len(direct_results)
              table == direct_queries[j].table
          IN \A r \in Range(direct_results[j]) :
                /\ r.hora >= 0
                /\ r.hora <= LastHour
                /\ \E spans \in SpansOf(table, r.device_id, r.data) :
                      r.consumo_kwh \in HourEnergy(spans, r.hora)

\* A file with indirect records and a direct record of hour 23, which only the
\* payload of more than 86400 seconds gives.
C12_Witness ==
    /\ pc = "done"
    /\ FileHas("indireto")
    /\ \E r \in FileRows : r.metodo = "direto" /\ r.hora = LastHour

QueriedVersions == {direct_queries[j].device_version : j \in 1..Len(direct_queries)}

\* C17: the calibration constant K of the direct energy formula is chosen per
\* device family/version: a run that processes several versions does not use
\* one constant for all of them.
C17_KPerFamily ==
    Cardinality(QueriedVersions) >= 2 =>
        \E v \in QueriedVersions : \E w \in QueriedVersions :
            CalibrationK(v) # CalibrationK(w)

\* C18: every unit of the roster has install_date = automation_start_date -
\* (install_offset_days + 1); with an offset >= 0 the install date is strictly
\* before the automation start, so the unit's window holds at least two days.
C18_InstallDate ==
    \A i \in 1..Len(df_units) :
        /\ df_units[i].data_instalacao
              = df_units[i].data_inicio_automacao - (df_units[i].dias_antes_automacao + 1)
        /\ df_units[i].dias_antes_automacao >= 0
              => /\ df_units[i].data_instalacao < df_units[i].data_inicio_automacao
                 /\ {d \in df_units[i].data_instalacao .. df_units[i].data_inicio_automacao :
                        TRUE} # {}

\* A finished run whose file holds a record dated at the install date of a
\* unit with offset 0, the day before its automation start.
C18_Witness ==
    /\ pc = "done"
    /\ \E i \in 1..Len(df_units) : \E r \in FileRows :
          /\ df_units[i].dias_antes_automacao = 0
          /\ r.unit_id = df_units[i].id_bradesco
          /\ r.data = df_units[i].data_instalacao
          /\ r.data = df_units[i].data_inicio_automacao - 1

\* The whole result of a run: the direct rows and the standardized indirect rows.
WholeResult ==
    SaveConsolidatedConsumption(
        Concat(all_consumption_data),
        IF BagToSet(all_indirect_data) = {} THEN EmptyBag
        ELSE IndirectStandardized(Concat(Rows(all_indirect_data)), df_devices_for_indirect,
                                  df_disponibility))

\* C20: a run that a failing external query ends writes no file, and a file is
\* written only after every query of the run has returned, holding the whole
\* result: no file holds a partial result.
C20_FailFast ==
    /\ pc = "aborted" => (saves = 0 /\ BagToSet(file) = {})
    /\ (saves > 0 \/ BagToSet(file) # {}) =>
          /\ pc = "done"
          /\ Len(direct_queries) = Len(versions_filtered)
          /\ BagCardinality(indirect_queries) = BagCardinality(df_devices_for_indirect)
          /\ file = WholeResult

\* A run ended by a failing indirect query, after direct rows survived and an
\* earlier indirect query returned rows.
C20_Witness ==
    /\ pc = "aborted"
    /\ all_consumption_data # <<>>
    /\ BagToSet(all_indirect_data) # {}

\* The phases of a run that come after the loop over versions_filtered.
AfterDirectLoop == pc \in {"consolidate", "indirect", "standardize", "done", "fatal"}

\* The queries of the rows of the indirect queue.
QueueQueries == MapRows(IndirectQueryOf, df_devices_for_indirect)

\* C21: the versions of versions_filtered are queried one at a time in the
\* order of that list, each exactly once (a version whose query yields no
\* surviving row is not queried again); no indirect query is issued before the
\* last version has been processed; no row of the indirect queue is queried
\* more often than it is there; and the file is written only after every
\* indirect query has returned.
C21_PhaseOrdering ==
    /\ Len(direct_queries) <= Len(versions_filtered)
    /\ Len(direct_results) = Len(direct_queries)
    /\ \A i \in 1..Len(direct_queries) :
          direct_queries[i].device_version = versions_filtered[i]
    /\ \A i, j \in 1..Len(direct_queries) :
          direct_queries[i].device_version = direct_queries[j].device_version => i = j
    /\ AfterDirectLoop => Len(direct_queries) = Len(versions_filtered)
    /\ BagToSet(indirect_queries) # {} =>
          /\ Len(direct_queries) = Len(versions_filtered)
          /\ df_final = Concat(all_consumption_data)
    /\ \A q \in BagToSet(indirect_queries) :
          CopiesIn(q, indirect_queries) <= CopiesIn(q, QueueQueries)
    /\ pc = "standardize" => indirect_queries = QueueQueries
    /\ saves > 0 =>
          /\ pc = "done"
          /\ Len(direct_queries) = Len(versions_filtered)
          /\ indirect_queries = QueueQueries

\* A finished run of two versions, the first of which yielded no row, with an
\* indirect query issued and the file written.
C21_Witness ==
    /\ pc = "done"
    /\ saves = 1
    /\ Len(versions_filtered) = 1 + 1
    /\ Len(direct_queries) = 1 + 1
    /\ direct_results[1] = <<>>
    /\ direct_results[1 + 1] # <<>>
    /\ BagToSet(indirect_queries) # {}

\* Every device of the indirect queue has been queried, the query has
\* returned, and what was collected has been looked at.
IndirectPhaseOver ==
    /\ BagToSet(df_devices_for_indirect) # {}
    /\ BagCardinality(indirect_queries) = BagCardinality(df_devices_for_indirect)
    /\ pc # "standardize"

\* C23: when the indirect queries return no rows, or no indirect row survives
\* the filters and the availability join, the run still ends normally with the
\* consolidated file written once; the file holds exactly the surviving
\* direct records, and no device of the indirect queue has a row in it.
C23_ZeroIndirect ==
    (IndirectPhaseOver /\ BagToSet(df_indirect_standardized) = {}) =>
        /\ pc = "done"
        /\ saves = 1
        /\ file = Concat(all_consumption_data)
        /\ FileRows # {}
        /\ \A r \in FileRows : r.metodo = "direto"
        /\ \A q \in BagToSet(df_devices_for_indirect) : \A r \in FileRows :
              r.device_id # q.device_code

\* A finished run whose indirect queries returned rows of which none survived.
C23_Witness ==
    /\ IndirectPhaseOver
    /\ pc = "done"
    /\ BagToSet(all_indirect_data) # {}
    /\ BagToSet(df_indirect_standardized) = {}
    /\ saves = 1
    /\ FileRows # {}

\* A roster device for which the direct queries returned hours, every one of
\* them with a rounded energy of 0.
EveryDirectHourZero(d) ==
    /\ d \in RosterDevices
    /\ \E r \in RawDirect : r.device_id = d
    /\ \A r \in RawDirect : r.device_id = d => r.consumo_kwh = Whole(0)

\* Every record kept for the output, direct or indirect, has consumo_kwh > 0.
KeptRecordsPositive ==
    /\ \A r \in FileRows : Gt(r.consumo_kwh, Whole(0))
    /\ \A r \in DirectRecords : Gt(r.consumo_kwh, Whole(0))
    /\ \A r \in BagToSet(df_final) : Gt(r.consumo_kwh, Whole(0))
    /\ \A r \in BagToSet(df_indirect_standardized) : Gt(r.consumo_kwh, Whole(0))

\* C25 as stated: every record of the consolidated output has consumo_kwh > 0,
\* and once the direct phase has been consolidated, in any run, a device whose
\* every direct hour rounds to 0 has no surviving direct record and is queued
\* for the indirect method.
C25_ZeroDeviceQueuedInEveryRun ==
    /\ KeptRecordsPositive
    /\ pc \in {"indirect", "standardize", "done", "fatal"} =>
          \A d \in Devices : EveryDirectHourZero(d) => (~HasDirectRecord(d) /\ Queued(d))

RosterVersions == {Slice(d, VersionLen) : d \in RosterDevices}

\* A roster device the direct method does not compute: its version is not in
\* the valid-family list, or its id does not start with DAC.
OutsideDirect(d) ==
    /\ d \in RosterDevices
    /\ Slice(d, VersionLen) \notin valid_device_prefixes \/ ~StartsWith(d, DAC)

\* The number of indirect queries issued for a device.
IndirectQueriesOf(d) ==
    LET Of(q) == q.device_code = d
    IN BagCardinality(Filter(Of, indirect_queries))

AfterFamilies == pc \in {"direct", "consolidate", "indirect", "standardize", "done", "fatal"}

\* C28: direct queries are built only for roster versions of the valid-family
\* list, and only rows of devices whose id starts with DAC are computed; a
\* roster device outside those sets has no direct record; no device is queried
\* by the indirect method more than once or with another window than its own
\* unit's; and in a run that runs to its end with at least one direct record,
\* each roster device outside those sets is queried by the indirect method
\* exactly once.
C28_DirectOnlyValidDac ==
    /\ \A i \in 1..Len(direct_queries) :
          /\ direct_queries[i].device_version \in valid_device_prefixes
          /\ direct_queries[i].device_version \in RosterVersions
    /\ AfterFamilies => Range(versions_filtered) = RosterVersions \cap valid_device_prefixes
    /\ \A r \in RawDirect : StartsWith(r.device_id, DAC)
    /\ AfterFamilies =>
          \A d \in Devices : OutsideDirect(d) =>
              /\ ~HasDirectRecord(d)
              /\ \A r \in FileRows : r.device_id = d => r.metodo = "indireto"
    /\ \A d \in Devices : IndirectQueriesOf(d) <= 1
    /\ \A q \in BagToSet(indirect_queries) :
          /\ OwnerWindows(q.device_code) # {}
          /\ \A u \in OwnerWindows(q.device_code) :
                /\ q.date_init = u.data_instalacao
                /\ q.date_final = u.data_inicio_automacao
    /\ (pc = "done" /\ DirectRecords # {}) =>
          \A d \in Devices : OutsideDirect(d) => IndirectQueriesOf(d) = 1

\* A finished run in which the version of a DUT is of a valid family and was
\* queried on a table holding a row of the DUT, no row of it was computed, and
\* the DUT was queried by the indirect method; the units have different windows.
C28_Witness ==
    /\ pc = "done"
    /\ DirectRecords # {}
    /\ D3 \in RosterDevices
    /\ Slice(D3, VersionLen) \in valid_device_prefixes
    /\ \E i \in 1..Len(direct_queries) :
          /\ direct_queries[i].device_version = Slice(D3, VersionLen)
          /\ \E k \in 1..Len(direct_queries[i].table) : direct_queries[i].table[k].dev_id = D3
          /\ direct_results[i] = <<>>
    /\ IndirectQueriesOf(D3) = 1
    /\ \E u \in Range(df_units) : \E v \in Range(df_units) :
          u.data_instalacao # v.data_instalacao

\* ------------------------------------------------ the analyzer
Required == Range(required_columns)

\* C19: loading a file that lacks required columns fails with a ValueError
\* naming exactly the missing columns, loading a path with no file fails with
\* FileNotFoundError, and in both cases no analyzer is produced: nothing is
\* loaded and nothing aggregated.
C19_LoaderErrors ==
    apc # "start" =>
        /\ ~input_csv.exists =>
              /\ apc = "failed"
              /\ error.kind = "FileNotFoundError"
        /\ (input_csv.exists /\ ~(Required \subseteq input_csv.columns)) =>
              /\ apc = "failed"
              /\ error.kind = "ValueError"
              /\ Range(error.columns) = Required \ input_csv.columns
              /\ Len(error.columns) = Cardinality(Required \ input_csv.columns)
        /\ apc = "failed" =>
              /\ df = <<>>
              /\ df_with_weights = {}
              /\ df_availability = <<>>
              /\ df_low_availability = <<>>

InUnitInterval(w) == w.k = "fin" /\ w.v >= 0 /\ w.v <= 10000

\* C15: in every row of the unit-hour aggregate of any loaded file,
\* peso_medio_dac and peso_medio_dut lie in [0, 1].
C15_WeightBounds ==
    apc = "aggregated" =>
        \A i \in 1..Len(df_availability) :
            /\ InUnitInterval(df_availability[i].peso_medio_dac)
            /\ InUnitInterval(df_availability[i].peso_medio_dut)

\* The rows of the loaded file of the (unit, date, hour) of an aggregate row.
Cohort(a) ==
    LET In(r) == r.unit_id = a.unit_id /\ r.data = a.data /\ r.hora = a.hora
    IN SelectRows(In, df)

AllCohortDevices(a) == {Cohort(a)[i].device_id : i \in 1..Len(Cohort(a))}

CohortDevices(a, type) == {d \in AllCohortDevices(a) : Slice(d, 3) = type}

ConsumoOf(a, S) ==
    LET Of(r) == r.device_id \in S
        rows == SelectRows(Of, Cohort(a))
    IN SumSeq([i \in 1..Len(rows) |-> rows[i].consumo_kwh])

\* The mean over the m devices of a type of 1/(2n) + c_device/(2 c_total), that
\* is (m c_total + n c_type) / (2 n m c_total), to the four decimals of the
\* output; n and c_total are those of the whole cohort.
StatedWeight(a, type) ==
    LET n == Cardinality(AllCohortDevices(a))
        m == Cardinality(CohortDevices(a, type))
        c_total == ConsumoOf(a, AllCohortDevices(a))
        c_type == ConsumoOf(a, CohortDevices(a, type))
        sgn == IF c_total < 0 THEN 0 - 1 ELSE 1
    IN RoundDiv(10000 * sgn * (m * c_total + n * c_type), 2 * n * m * sgn * c_total)

\* A weight is the stated mean when devices of the type are present, and is
\* 0.0 exactly when none is.
WeightAsStated(a, w, type) ==
    /\ w.k = "fin"
    /\ (w.v = 0) <=> (CohortDevices(a, type) = {})
    /\ CohortDevices(a, type) # {} =>
          /\ ConsumoOf(a, AllCohortDevices(a)) # 0
          /\ w.v = StatedWeight(a, type)

\* C16: for each (unit, date, hour), peso_medio_dac (peso_medio_dut) is the
\* mean over the distinct DAC (DUT) devices of the hour of
\* 0.5*(1/qtd_devices_total) + 0.5*(consumo_device/consumo_total), taken against
\* the whole cohort, and is 0.0, never null, exactly when the hour has no
\* device of that type.
C16_WeightFormula ==
    apc = "aggregated" =>
        \A i \in 1..Len(df_availability) :
            /\ WeightAsStated(df_availability[i], df_availability[i].peso_medio_dac, DAC)
            /\ WeightAsStated(df_availability[i], df_availability[i].peso_medio_dut, DUT)

\* The (unit_id, data, hora) of a row.
KeyOf(r) == <<r.unit_id, r.data, r.hora>>

\* A text comes before another in the order of the codes of their characters.
TextBefore(a, b) == SeqLess(TextKey(a), TextKey(b))

\* text is made of the parts in their order, with a comma and a blank between
\* one part and the next and nothing else.
RECURSIVE IsJoinOf(_, _)
IsJoinOf(text, parts) ==
    IF parts = <<>> THEN text = <<>>
    ELSE IF Len(parts) = 1 THEN text = parts[1]
    ELSE LET n == Len(parts[1])
         IN /\ Len(text) >= n + 1 + 1
            /\ SubSeq(text, 1, n) = parts[1]
            /\ text[n + 1] = ","
            /\ text[n + 1 + 1] = " "
            /\ IsJoinOf(SubSeq(text, n + 1 + 1 + 1, Len(text)), Tail(parts))

\* The metodos of an aggregate row lists every metodo text of the input rows
\* of its (unit_id, data, hora) once, lesser texts first.
MetodosAsStated(a) ==
    LET ms == {Cohort(a)[i].metodo : i \in 1..Len(Cohort(a))}
    IN \E parts \in [1..Cardinality(ms) -> ms] :
          /\ \A i \in 1..Len(parts) : \A k \in 1..Len(parts) :
                i < k => TextBefore(parts[i], parts[k])
          /\ IsJoinOf(a.metodos, parts)

\* C22: the unit-hour aggregate has exactly one row per (unit_id, data, hora)
\* of the loaded dataset and no other row, its rows are in ascending order of
\* (unit_id, data, hora), and the metodos of each row is the sorted,
\* de-duplicated, comma-joined list of the metodo values of the input rows of
\* its (unit_id, data, hora).
C22_UnitHourAggregate ==
    apc = "aggregated" =>
        /\ \A i \in 1..Len(df) :
              Cardinality({j \in 1..Len(df_availability) :
                              KeyOf(df_availability[j]) = KeyOf(df[i])}) = 1
        /\ \A j \in 1..Len(df_availability) :
              \E i \in 1..Len(df) : KeyOf(df[i]) = KeyOf(df_availability[j])
        /\ \A j \in 1..Len(df_availability) : \A k \in 1..Len(df_availability) :
              j < k => SeqLess(KeyOf(df_availability[j]), KeyOf(df_availability[k]))
        /\ \A j \in 1..Len(df_availability) : MetodosAsStated(df_availability[j])

\* An aggregate of two hours from three rows that are not in key order: the
\* first row is of the later hour, the other two are of one hour and carry
\* "indireto" and then "Direto", a text main.py does not write, which the
\* aggregate lists first.
C22_Witness ==
    /\ apc = "aggregated"
    /\ Len(df) = 1 + 1 + 1
    /\ Len(df_availability) = 1 + 1
    /\ SeqLess(KeyOf(df[1 + 1]), KeyOf(df[1]))
    /\ KeyOf(df[1 + 1]) = KeyOf(df[1 + 1 + 1])
    /\ df[1 + 1].metodo = Indireto
    /\ df[1 + 1 + 1].metodo = DiretoCapital
    /\ df_availability[1].metodos = DiretoCapital \o <<",", " ">> \o Indireto

\* A row is low for the limits given to the call.
LowFor(r) ==
    \/ ~low_args.min_dac_expected.null /\ r.qtd_dac < low_args.min_dac_expected.v
    \/ ~low_args.min_dut_expected.null /\ r.qtd_dut < low_args.min_dut_expected.v

NoLimitGiven == low_args.min_dac_expected.null /\ low_args.min_dut_expected.null

\* How often a frame holds a row.
CountIn(frame, r) == Cardinality({i \in 1..Len(frame) : frame[i] = r})

\* C24: detect_low_availability_hours returns its input unchanged when neither
\* limit is given; otherwise it returns exactly the input rows with
\* qtd_dac < min_dac_expected or qtd_dut < min_dut_expected, only the given
\* limits taking part, each as often as the input holds it, sorted by
\* (unit_id, data, hora); the result is always a subset of the input.
C24_DetectLowAvailability ==
    apc = "detected" =>
        /\ NoLimitGiven => df_low_availability = low_args.df_availability
        /\ ~NoLimitGiven =>
              /\ \A r \in Range(low_args.df_availability) \cup Range(df_low_availability) :
                    CountIn(df_low_availability, r) =
                        IF LowFor(r) THEN CountIn(low_args.df_availability, r) ELSE 0
              /\ \A j \in 1..Len(df_low_availability) : \A k \in 1..Len(df_low_availability) :
                    j < k => ~SeqLess(KeyOf(df_low_availability[k]), KeyOf(df_low_availability[j]))
        /\ \A r \in Range(df_low_availability) :
              CountIn(df_low_availability, r) <= CountIn(low_args.df_availability, r)

\* A call with both limits on a frame that is not in key order and holds a
\* row twice and two different rows of one (unit_id, data, hora): one row
\* returned is low by its DACs only, another by its DUTs only, a row is
\* returned twice, two different rows of one key are returned, a row of
\* the input is not returned, and the result is not the input.
C24_Witness ==
    /\ apc = "detected"
    /\ ~low_args.min_dac_expected.null
    /\ ~low_args.min_dut_expected.null
    /\ df_low_availability # low_args.df_availability
    /\ \E i \in 1..Len(df_low_availability) :
          /\ df_low_availability[i].qtd_dac < low_args.min_dac_expected.v
          /\ ~(df_low_availability[i].qtd_dut < low_args.min_dut_expected.v)
    /\ \E i \in 1..Len(df_low_availability) :
          /\ ~(df_low_availability[i].qtd_dac < low_args.min_dac_expected.v)
          /\ df_low_availability[i].qtd_dut < low_args.min_dut_expected.v
    /\ \E i \in 1..Len(df_low_availability) :
          CountIn(df_low_availability, df_low_availability[i]) = 1 + 1
    /\ \E i \in 1..Len(df_low_availability) : \E k \in 1..Len(df_low_availability) :
          /\ KeyOf(df_low_availability[i]) = KeyOf(df_low_availability[k])
          /\ df_low_availability[i] # df_low_availability[k]
    /\ \E i \in 1..Len(low_args.df_availability) :
          CountIn(df_low_availability, low_args.df_availability[i]) = 0

\* The rows of df_with_weights of the (unit, date, hour) of an aggregate row.
WeightsOf(a) == {w \in df_with_weights : KeyOf(w) = KeyOf(a)}

\* The sum of the fractions of the weights of a set of rows.
RECURSIVE SumOfFractions(_)
SumOfFractions(ws) ==
    IF ws = {} THEN Whole(0)
    ELSE LET w == CHOOSE x \in ws : TRUE
             rest == SumOfFractions(ws \ {w})
         IN Rat(w.peso_total_device.n * rest.d + rest.n * w.peso_total_device.d,
                w.peso_total_device.d * rest.d)

\* The FLOAT64 sum of the weights of a set of rows.
RECURSIVE SumOfWeights(_)
SumOfWeights(ws) ==
    IF ws = {} THEN Whole(0)
    ELSE LET w == CHOOSE x \in ws : TRUE
         IN Add(w.peso_total_device, SumOfWeights(ws \ {w}))

\* The weight of a row is a finite FLOAT64 of the fraction
\* 1/(2 qtd_devices_total) + consumo_device / (2 consumo_total) of the
\* consumptions of the file.
WeightOfStatedFraction(a, w) ==
    LET n == Cardinality(AllCohortDevices(a))
        c_total == ConsumoOf(a, AllCohortDevices(a))
        c_device == ConsumoOf(a, {w.device_id})
    IN /\ w.peso_total_device.k \in {"fin", "near"}
       /\ Rat(w.peso_total_device.n, w.peso_total_device.d)
              = Rat(c_total + n * c_device, 2 * n * c_total)

\* df_with_weights holds one weight for each distinct device of the cohort.
OneWeightPerDevice(a) ==
    /\ {w.device_id : w \in WeightsOf(a)} = AllCohortDevices(a)
    /\ Cardinality(WeightsOf(a)) = Cardinality(AllCohortDevices(a))

OtherTypePresent(a) == \E d \in AllCohortDevices(a) : DeviceType(d) = "OUTRO"

\* C26 as stated: in each (unit, date, hour) cohort whose total consumption
\* is positive, the composite weights of all distinct devices, the FLOAT64
\* values the aggregation computes, sum to exactly 1 whatever their
\* rounding; and qtd_dac + qtd_dut <= qtd_devices_total, with equality
\* exactly when no device of another type is present.
C26_WeightsSumExactlyToOne ==
    apc = "aggregated" =>
        \A j \in 1..Len(df_availability) :
            LET a == df_availability[j]
            IN /\ ConsumoOf(a, AllCohortDevices(a)) > 0 =>
                     /\ OneWeightPerDevice(a)
                     /\ SumOfWeights(WeightsOf(a)) = Whole(1)
               /\ a.qtd_devices_total = Cardinality(AllCohortDevices(a))
               /\ a.qtd_dac + a.qtd_dut <= a.qtd_devices_total
               /\ (a.qtd_dac + a.qtd_dut = a.qtd_devices_total) <=> ~OtherTypePresent(a)

\* C26 amended: in each (unit, date, hour) cohort whose consumptions have a
\* positive sum, every distinct device has one composite weight, a finite
\* FLOAT64 of the fraction 0.5/qtd_devices_total
\* + 0.5*consumo_device/consumo_total, and these fractions sum to 1, so that
\* the weights computed sum to 1 up to the rounding of the FLOAT64 sums,
\* divisions and additions that give them; and in every cohort
\* qtd_dac + qtd_dut <= qtd_devices_total, with equality exactly when no
\* device of another type is present.
C26_WeightsSumToOne ==
    apc = "aggregated" =>
        \A j \in 1..Len(df_availability) :
            LET a == df_availability[j]
            IN /\ ConsumoOf(a, AllCohortDevices(a)) > 0 =>
                     /\ OneWeightPerDevice(a)
                     /\ \A w \in WeightsOf(a) : WeightOfStatedFraction(a, w)
                     /\ SumOfFractions(WeightsOf(a)) = Whole(1)
               /\ a.qtd_devices_total = Cardinality(AllCohortDevices(a))
               /\ a.qtd_dac + a.qtd_dut <= a.qtd_devices_total
               /\ (a.qtd_dac + a.qtd_dut = a.qtd_devices_total) <=> ~OtherTypePresent(a)

\* A cohort of positive total with a DAC, a DUT and a device of another type,
\* one of them with negative consumption, whose weights are rounded.
C26_Witness ==
    /\ apc = "aggregated"
    /\ \E j \in 1..Len(df_availability) :
          LET a == df_availability[j]
          IN /\ ConsumoOf(a, AllCohortDevices(a)) > 0
             /\ a.qtd_devices_total = 1 + 1 + 1
             /\ a.qtd_dac = 1
             /\ a.qtd_dut = 1
             /\ OtherTypePresent(a)
             /\ \E d \in AllCohortDevices(a) : ConsumoOf(a, {d}) < 0
             /\ \E w \in WeightsOf(a) : w.peso_total_device.k = "near"
====
